---- MODULE Spec2Model ----
(***************************************************************************)
(* serial-testkit: the framed-message codec (common/message.py,            *)
(* common/encoding.py), the three-way handshake (client/handshake.py,      *)
(* server/handshake.py), the request/response session engine              *)
(* (session/exchange.py) and the FIN / FIN-ACK teardown                    *)
(* (client/shutdown.py, server/shutdown.py).                               *)
(*                                                                         *)
(* Bytes are the integers 0..255, byte strings are sequences of bytes.     *)
(* A port's input buffer is a byte sequence plus a read position, as in    *)
(* test/conftest.py's MockSerialPort.                                      *)
(***************************************************************************)
EXTENDS Integers, Sequences, FiniteSets, TLC

(***************************************************************************)
(* common/message.py: constants and integer encoding                       *)
(***************************************************************************)
UINT32_SIZE == 4

SYNC_MAGIC == 1582960640

MAX_MESSAGE_LENGTH == 4096

MAX_RESYNC_BYTES == 8192

Min(a, b) == IF a < b THEN a ELSE b

\* the one element of a one-element set.  Val({ F(x) : x \in {e} }) is F(e)
\* with e evaluated once, before F
Val(S) == CHOOSE v \in S : TRUE

\* value.to_bytes(4, "little"): least significant byte first
uint32_to_bytes(value) ==
    << value % 256,
       (value \div 256) % 256,
       (value \div 65536) % 256,
       (value \div 16777216) % 256 >>

\* int.from_bytes(data, "little").  Model integers end at 2^31 - 1:
\* a value with the top bit set (data[4] >= 128) is told by uint32_exceeds
\* and never computed.
uint32_from_bytes(data) ==
    data[1] + 256 * data[2] + 65536 * data[3] + 16777216 * data[4]

\* uint32_from_bytes(data) > bound, for a bound below 2^31
uint32_exceeds(data, bound) ==
    IF data[4] >= 128 THEN TRUE ELSE uint32_from_bytes(data) > bound

SYNC_MAGIC_BYTES == uint32_to_bytes(SYNC_MAGIC)

(***************************************************************************)
(* zlib.crc32: CRC-32 (IEEE 802.3), reflected polynomial 0xEDB88320,       *)
(* initial value 0xFFFFFFFF, final xor 0xFFFFFFFF.  The model's integers   *)
(* are 32 bits signed, so a 32-bit unsigned value is held as its four      *)
(* bytes, least significant first: crc32_bytes(data) is                    *)
(* uint32_to_bytes(zlib.crc32(data)).                                      *)
(***************************************************************************)
CRC_POLY_BYTES == <<32, 131, 184, 237>>

CRC_INIT_BYTES == <<255, 255, 255, 255>>

\* a ^ b on bytes, bit by bit
XorBits(a, b) ==
    ((a + b) % 2)
    + 2 * (((a \div 2) + (b \div 2)) % 2)
    + 4 * (((a \div 4) + (b \div 4)) % 2)
    + 8 * (((a \div 8) + (b \div 8)) % 2)
    + 16 * (((a \div 16) + (b \div 16)) % 2)
    + 32 * (((a \div 32) + (b \div 32)) % 2)
    + 64 * (((a \div 64) + (b \div 64)) % 2)
    + 128 * (((a \div 128) + (b \div 128)) % 2)

\* a ^ b for every pair of bytes, the pair (a, b) at position 256 * a + b + 1
XOR_TABLE == <<>> \o [k \in 1..65536 |-> XorBits((k - 1) \div 256, (k - 1) % 256)]

Xor(a, b) == XOR_TABLE[256 * a + b + 1]

Xor32(x, y) == << Xor(x[1], y[1]), Xor(x[2], y[2]), Xor(x[3], y[3]), Xor(x[4], y[4]) >>

\* x >> 1
Shr1(x) ==
    << (x[1] \div 2) + 128 * (x[2] % 2),
       (x[2] \div 2) + 128 * (x[3] % 2),
       (x[3] \div 2) + 128 * (x[4] % 2),
       x[4] \div 2 >>

\* one bit of the reflected CRC: shift right, xor the polynomial when a 1 falls out
CrcShift(c) == IF c[1] % 2 = 1 THEN Xor32(Shr1(c), CRC_POLY_BYTES) ELSE Shr1(c)

CrcEntry(n) ==
    CrcShift(CrcShift(CrcShift(CrcShift(
    CrcShift(CrcShift(CrcShift(CrcShift(<<n, 0, 0, 0>>))))))))

\* the table of the 256 entries, entry n at position n + 1
CRC_TABLE == <<>> \o [k \in 1..256 |-> CrcEntry(k - 1)]

\* one byte: crc = table[(crc ^ b) & 0xFF] ^ (crc >> 8)
CrcStep(entry, crc) == Xor32(entry, <<crc[2], crc[3], crc[4], 0>>)

CrcByte(crc, b) == Val({ CrcStep(CRC_TABLE[x + 1], crc) : x \in {Xor(crc[1], b)} })

\* the bytes data[lo..hi] folded into crc, left to right; the range is split in
\* halves at mid to keep the evaluation shallow, and the left half is a value
\* before the right half starts from it
RECURSIVE CrcFold(_, _, _, _)
RECURSIVE CrcHalves(_, _, _, _, _)
CrcHalves(data, lo, mid, hi, crc) ==
    Val({ CrcFold(data, mid + 1, hi, left) : left \in {CrcFold(data, lo, mid, crc)} })

CrcFold(data, lo, hi, crc) ==
    IF lo > hi THEN crc
    ELSE IF lo = hi THEN CrcByte(crc, data[lo])
    ELSE Val({ CrcHalves(data, lo, mid, hi, crc) : mid \in {(lo + hi) \div 2} })

CrcFinal(crc) == Xor32(crc, CRC_INIT_BYTES)

crc32_bytes(data) ==
    Val({ CrcFinal(CrcFold(d, 1, Len(d), CRC_INIT_BYTES)) : d \in {<<>> \o data} })

(***************************************************************************)
(* Reader.read(size) on a buffer with a read position: up to size bytes,   *)
(* fewer when the buffer runs out (a short read).                          *)
(***************************************************************************)
\* a read that returns nothing unless all of size has arrived
Read_AllOrNothing(buf, pos, size) ==
    IF pos + size > Len(buf) THEN <<>> ELSE SubSeq(buf, pos + 1, pos + size)

Read(buf, pos, size) == SubSeq(buf, pos + 1, Min(pos + size, Len(buf)))

(***************************************************************************)
(* common/message.py: encode                                               *)
(***************************************************************************)
encode(payload) ==
    LET length == uint32_to_bytes(Len(payload))
        crc    == crc32_bytes(payload)
    IN  SYNC_MAGIC_BYTES \o length \o payload \o crc

(***************************************************************************)
(* common/message.py: decode.  The result is (payload, crc_ok) or          *)
(* (None, False); none = TRUE stands for payload None.  pos is the         *)
(* reader's position when the call returns: the bytes it consumed.         *)
(***************************************************************************)
DecodeFail(pos) ==
    [none |-> TRUE, payload |-> <<>>, crc_ok |-> FALSE, pos |-> pos]

\* the state of the resync loop before its first test of the window
ResyncStart(sync_bytes, pos) ==
    [sync_bytes |-> sync_bytes, pos |-> pos, bytes_scanned |-> 0, exit |-> "loop"]

\* the window after one more byte: sync_bytes[1:] + next_byte
SlideWindow_Prepend(sync_bytes, next_byte) == next_byte \o SubSeq(sync_bytes, 1, 3)

SlideWindow(sync_bytes, next_byte) == Tail(sync_bytes) \o next_byte

\* one test of the while condition and, when it holds, one run of the body
ResyncStep(buf, st) ==
    IF st.sync_bytes = SYNC_MAGIC_BYTES
    THEN [st EXCEPT !.exit = "synced"]
    ELSE IF st.bytes_scanned >= MAX_RESYNC_BYTES
    THEN [st EXCEPT !.exit = "failed"]
    ELSE LET next_byte == Read(buf, st.pos, 1)
         IN  IF Len(next_byte) < 1
             THEN [st EXCEPT !.exit = "failed"]
             ELSE [sync_bytes    |-> SlideWindow(st.sync_bytes, next_byte),
                   pos           |-> st.pos + 1,
                   bytes_scanned |-> st.bytes_scanned + 1,
                   exit          |-> "loop"]

\* the while loop: ResyncStep repeated until it exits; n bounds the number of
\* steps (every step that stays in the loop reads one byte of buf).  The
\* repetition is split in halves to keep the evaluation shallow.
RECURSIVE ResyncLoop(_, _, _)
ResyncLoop(buf, st, n) ==
    IF st.exit # "loop" \/ n = 0 THEN st
    ELSE IF n = 1 THEN ResyncStep(buf, st)
    ELSE \* half is a value before the second half starts from it
         Val({ ResyncLoop(buf, half, n - (n \div 2)) :
                   half \in {ResyncLoop(buf, st, n \div 2)} })

\* the sanity check of the declared length: length > MAX_MESSAGE_LENGTH
LengthTooLarge_OffByOneLow(length_bytes) ==
    uint32_exceeds(length_bytes, MAX_MESSAGE_LENGTH - 1)

LengthTooLarge_OffByOneHigh(length_bytes) ==
    uint32_exceeds(length_bytes, MAX_MESSAGE_LENGTH + 1)

LengthTooLarge(length_bytes) == uint32_exceeds(length_bytes, MAX_MESSAGE_LENGTH)

\* expected_crc == actual_crc, on the four bytes of each
CrcMatches_Low24(crc_bytes, payload) ==
    SubSeq(crc_bytes, 1, 3) = SubSeq(crc32_bytes(payload), 1, 3)

CrcMatches(crc_bytes, payload) == crc_bytes = crc32_bytes(payload)

\* after the sync magic: length, sanity check, payload, CRC
DecodeBody(buf, pos) ==
    LET length_bytes == Read(buf, pos, UINT32_SIZE)
        p1 == pos + Len(length_bytes)
    IN  IF Len(length_bytes) < UINT32_SIZE THEN DecodeFail(p1)
        ELSE IF LengthTooLarge(length_bytes) THEN DecodeFail(p1)
             ELSE LET length    == uint32_from_bytes(length_bytes)
                          payload   == Read(buf, p1, length)
                          p2        == p1 + Len(payload)
                          crc_bytes == Read(buf, p2, UINT32_SIZE)
                          p3        == p2 + Len(crc_bytes)
                  IN  IF Len(payload) < length \/ Len(crc_bytes) < UINT32_SIZE
                      THEN DecodeFail(p3)
                      ELSE [none    |-> FALSE,
                            payload |-> payload,
                            crc_ok  |-> CrcMatches(crc_bytes, payload),
                            pos     |-> p3]

\* after the resync loop left the state st
DecodeSynced(buf, st) ==
    IF st.exit # "synced" THEN DecodeFail(st.pos) ELSE DecodeBody(buf, st.pos)

decode(buf, pos) ==
    LET sync_bytes == Read(buf, pos, UINT32_SIZE)
        p0 == pos + Len(sync_bytes)
    IN  IF Len(sync_bytes) < UINT32_SIZE THEN DecodeFail(p0)
        ELSE Val({ DecodeSynced(buf, st) :
                       st \in {ResyncLoop(buf, ResyncStart(sync_bytes, p0),
                                          Len(buf) + 2)} })

(***************************************************************************)
(* common/protocol.py: message types                                       *)
(***************************************************************************)
SYN == 1

SYN_ACK == 2

ACK == 3

DATA == 16

FIN == 32

FIN_ACK == 33

MsgType == {SYN, SYN_ACK, ACK, DATA, FIN, FIN_ACK}

CONN_ID_SIZE == 4

(***************************************************************************)
(* common/encoding.py                                                      *)
(***************************************************************************)
encode_control(msg_type, conn_id) == encode(<<msg_type>> \o conn_id)

encode_ack_with_params(conn_id, msg_count) ==
    encode(<<ACK>> \o conn_id \o uint32_to_bytes(msg_count))

\* (conn_id, SessionParams(msg_count)), or EncodingError when the payload is short
decode_ack_with_params(payload) ==
    IF Len(payload) < 1 + CONN_ID_SIZE + 4
    THEN [err |-> "EncodingError", conn_id |-> <<>>, msg_count |-> 0]
    ELSE [err       |-> "none",
          conn_id   |-> SubSeq(payload, 2, 1 + CONN_ID_SIZE),
          msg_count |-> uint32_from_bytes(
                            SubSeq(payload, 2 + CONN_ID_SIZE, 1 + CONN_ID_SIZE + 4))]

encode_data(conn_id, data) == encode(<<DATA>> \o conn_id \o data)

MessageError(err, pos) ==
    [err |-> err, msg_type |-> 0, conn_id |-> <<>>, data |-> <<>>,
     crc_ok |-> FALSE, pos |-> pos]

Message_AnyType(d) ==
    IF d.none THEN MessageError("TransportError", d.pos)
    ELSE IF Len(d.payload) < 1 + CONN_ID_SIZE
    THEN MessageError("EncodingError", d.pos)
    ELSE [err      |-> "none",
          msg_type |-> d.payload[1],
          conn_id  |-> SubSeq(d.payload, 2, 1 + CONN_ID_SIZE),
          data     |-> IF Len(d.payload) > 1 + CONN_ID_SIZE
                       THEN SubSeq(d.payload, 2 + CONN_ID_SIZE, Len(d.payload))
                       ELSE <<>>,
          crc_ok   |-> d.crc_ok,
          pos      |-> d.pos]

\* what decode_message makes of d, the result of message.decode
Message(d) ==
    IF d.none THEN MessageError("TransportError", d.pos)
    ELSE IF Len(d.payload) < 1 + CONN_ID_SIZE
    THEN MessageError("EncodingError", d.pos)
    ELSE IF d.payload[1] \notin MsgType
    THEN MessageError("EncodingError", d.pos)
    ELSE [err      |-> "none",
          msg_type |-> d.payload[1],
          conn_id  |-> SubSeq(d.payload, 2, 1 + CONN_ID_SIZE),
          data     |-> IF Len(d.payload) > 1 + CONN_ID_SIZE
                       THEN SubSeq(d.payload, 2 + CONN_ID_SIZE, Len(d.payload))
                       ELSE <<>>,
          crc_ok   |-> d.crc_ok,
          pos      |-> d.pos]

\* (msg_type, conn_id, data, crc_ok), or the exception raised
decode_message(buf, pos) == Val({ Message(d) : d \in {decode(buf, pos)} })

(***************************************************************************)
(* State.                                                                  *)
(*   rbuf, rpos   a reader: its bytes and its read position                *)
(*   tcase        what was written to rbuf: the bytes before the frame,    *)
(*                the frame's source and the change made to its CRC bytes  *)
(*   rets         the results of the decode / decode_message calls made    *)
(*                on the reader so far, in order                           *)
(***************************************************************************)
VARIABLES rbuf, rpos, tcase, rets

\* the two processes, the two directions of the serial line, the environment
VARIABLES client, server, chan, env

codecVars == <<rbuf, rpos, tcase, rets>>

protoVars == <<client, server, chan, env>>

vars == <<rbuf, rpos, tcase, rets, client, server, chan, env>>

(***************************************************************************)
(* Inputs of the codec specification                                       *)
(***************************************************************************)
MaxDecodeCalls == 2

FillByte == 120

Fill(n, b) == [i \in 1..n |-> b]

ConnIds == { <<1, 2, 3, 4>>, <<170, 187, 204, 221>> }

HELLO == <<104, 101, 108, 108, 111>>

\* data payloads: empty, one byte, "hello", one holding the sync magic, the
\* longest that fits a frame (MAX_MESSAGE_LENGTH less type and conn_id) and
\* one byte more
SmallData == { <<>>, <<0>>, HELLO, <<7>> \o SYNC_MAGIC_BYTES }

LongData ==
    { Fill(MAX_MESSAGE_LENGTH - 1 - CONN_ID_SIZE, FillByte),
      Fill(MAX_MESSAGE_LENGTH - CONN_ID_SIZE, FillByte) }

\* a frame's source: a control message, a data message, or a bare payload
\* handed to message.encode
ControlSources ==
    { [via |-> "control", msg_type |-> t, conn_id |-> c, data |-> <<>>] :
        t \in MsgType, c \in ConnIds }

DataSources(payloads) ==
    { [via |-> "data", msg_type |-> DATA, conn_id |-> c, data |-> p] :
        c \in ConnIds, p \in payloads }

RawSources ==
    { [via |-> "raw", msg_type |-> 0, conn_id |-> <<>>, data |-> p] :
        p \in { <<>>, HELLO, <<99, 1, 2, 3, 4>>, <<1, 2, 3, 4>> } }

\* the payload handed to message.encode
FramePayload(src) ==
    IF src.via = "raw" THEN src.data
    ELSE <<src.msg_type>> \o src.conn_id \o src.data

EncodeSource(src) ==
    IF src.via = "control" THEN encode_control(src.msg_type, src.conn_id)
    ELSE IF src.via = "data" THEN encode_data(src.conn_id, src.data)
    ELSE encode(src.data)

\* a change of one CRC byte: byte idx of the four (0: none) is xored with mask
NoFlip == [idx |-> 0, mask |-> 0]

Flips == { [idx |-> i, mask |-> m] : i \in 1..4, m \in {1, 255} }

FlipCrc(frame, flip) ==
    IF flip.idx = 0 THEN frame
    ELSE LET at == Len(frame) - 4 + flip.idx
         IN  [frame EXCEPT ![at] = Xor(frame[at], flip.mask)]

\* bytes before the frame that hold no sync magic
CleanPrefixes ==
    { <<>>,
      <<0, 1, 2, 3, 4, 5>>,
      <<90, 16, 0, 255, 255>>,
      <<0, 16, 90>>,
      <<94, 0, 16, 90>> }

LongPrefixes ==
    { Fill(MAX_RESYNC_BYTES - 4, 7),
      Fill(MAX_RESYNC_BYTES, 7),
      Fill(MAX_RESYNC_BYTES + 1, 7) }

\* bytes before the frame that hold the sync magic: the magic alone, a whole
\* frame, a frame header declaring more than MAX_MESSAGE_LENGTH
OversizeHeaders ==
    { SYNC_MAGIC_BYTES \o uint32_to_bytes(MAX_MESSAGE_LENGTH + 1),
      SYNC_MAGIC_BYTES \o <<255, 255, 255, 255>>,
      SYNC_MAGIC_BYTES \o uint32_to_bytes(MAX_MESSAGE_LENGTH + 1) \o <<120, 120, 120>> }

\* a frame header declaring more payload bytes than the reader holds
TruncatedHeader == SYNC_MAGIC_BYTES \o uint32_to_bytes(64)

MagicPrefixes ==
    { SYNC_MAGIC_BYTES, <<9>> \o SYNC_MAGIC_BYTES \o <<9>>, encode(<<>>),
      TruncatedHeader }
        \cup OversizeHeaders

HasMagic(bytes) ==
    \E k \in 0..(Len(bytes) - 4) : SubSeq(bytes, k + 1, k + 4) = SYNC_MAGIC_BYTES

TestCases ==
    { [prefix |-> <<>>, src |-> s, flip |-> f] :
        s \in ControlSources \cup DataSources(SmallData) \cup RawSources,
        f \in {NoFlip} \cup Flips }
    \cup
    { [prefix |-> <<>>, src |-> s, flip |-> f] :
        s \in DataSources(LongData), f \in {NoFlip, [idx |-> 4, mask |-> 255]} }
    \cup
    { [prefix |-> g, src |-> s, flip |-> NoFlip] :
        g \in CleanPrefixes \cup MagicPrefixes,
        s \in ControlSources \cup DataSources(SmallData) \cup RawSources }
    \cup
    { [prefix |-> g, src |-> [via |-> "raw", msg_type |-> 0, conn_id |-> <<>>,
                              data |-> HELLO], flip |-> NoFlip] :
        g \in LongPrefixes }

(***************************************************************************)
(* State of the two processes.  Time is counted in ticks of the port's     *)
(* read timeout (open_serial: timeout = 0.1 s): one blocked read that      *)
(* returns nothing costs one tick.  The timeouts and intervals are the     *)
(* code's, scaled down to a few ticks.                                     *)
(***************************************************************************)
FinInterval == 1

ListenTimeout == 2

SynInterval == 2

FinWaitTimeout == 3

AckTimeout == 4

ClientTimeout == 5

MaxMsgCount == 2

MaxFaults == 2

MaxNoise == 2

MIN_PAYLOAD_SIZE == 16

\* last_syn = 0.0, last_syn_ack = 0.0, last_fin = 0.0: the monotonic clock is
\* further than the interval from 0.0
LongAgo(interval) == interval + 1

\* payloads random_payload draws
Payloads == { Fill(MIN_PAYLOAD_SIZE, 65), Fill(MIN_PAYLOAD_SIZE + 1, 66) }

_SessionStats ==
    [sent |-> 0, received |-> 0, crc_ok |-> 0, crc_errors |-> 0,
     bytes_sent |-> 0, bytes_received |-> 0, rtt_samples |-> <<>>]

\* no SessionResult returned yet
NoResult ==
    [returned |-> FALSE, success |-> FALSE, error |-> "none", error_n |-> 0,
     fin_ack_received |-> FALSE, fin_received |-> FALSE, stats |-> _SessionStats]

SessionResult_NeedsFinAck(success, error, error_n, fin_ack_received, fin_received, stats) ==
    [returned |-> TRUE, success |-> success /\ fin_ack_received, error |-> error,
     error_n |-> error_n, fin_ack_received |-> fin_ack_received,
     fin_received |-> fin_received, stats |-> stats]

SessionResult(success, error, error_n, fin_ack_received, fin_received, stats) ==
    [returned |-> TRUE, success |-> success, error |-> error, error_n |-> error_n,
     fin_ack_received |-> fin_ack_received, fin_received |-> fin_received,
     stats |-> stats]

\* the client before run_client, the server before run_server
IdleClient ==
    [pc |-> "idle", conn_id |-> <<>>, msg_count |-> 0, i |-> 0,
     elapsed |-> 0, since |-> 0, rtt |-> 0,
     stats |-> _SessionStats, result |-> NoResult,
     port |-> "closed", exit |-> <<>>, reports |-> {}]

IdleServer ==
    [pc |-> "idle", conn_id |-> <<>>, msg_count |-> 0, i |-> 0,
     elapsed |-> 0, since |-> 0, error |-> "none",
     stats |-> _SessionStats, result |-> NoResult,
     port |-> "closed", exit |-> <<>>, running |-> TRUE, reports |-> {}]

\* ExitCode
SUCCESS == 0

PEERING_FAILED == 1

NO_DATA == 2

CRC_ERRORS == 3

\* SessionResult.crc_pass_rate, in whole percent
crc_pass_rate(result) ==
    IF result.stats.received = 0 THEN 0
    ELSE (result.stats.crc_ok * 100) \div result.stats.received

\* run_client's mapping of the session result to its exit code
ExitCodeOf_IgnoresCrc(result) ==
    IF ~result.success THEN PEERING_FAILED
    ELSE IF result.stats.received = 0 THEN NO_DATA
    ELSE SUCCESS

ExitCodeOf(result) ==
    IF ~result.success THEN PEERING_FAILED
    ELSE IF result.stats.received = 0 THEN NO_DATA
    ELSE IF crc_pass_rate(result) < 100 THEN CRC_ERRORS
    ELSE SUCCESS

\* run_client leaves its try block in state c: by return after PeeringError,
\* by return after client_exchange, or by an exception (no exit code); the
\* finally clause closes the port
\* the reports run_client has printed when it leaves in state c:
\* PeeringReport.print() after PeeringError, SessionReport.print() after
\* client_exchange returned
ClientReports(c) ==
    IF c.pc = "hs_failed" THEN c.reports \cup {"peering"}
    ELSE IF c.pc = "done" THEN c.reports \cup {"session"}
    ELSE c.reports

ClientLeaves_LeaksOnRaise(c) ==
    [c EXCEPT !.port = IF c.pc = "crashed" THEN @ ELSE "closed",
              !.exit = IF c.pc = "hs_failed" THEN <<PEERING_FAILED>>
                       ELSE IF c.pc = "done" THEN <<ExitCodeOf(c.result)>>
                       ELSE <<>>,
              !.reports = ClientReports(c)]

ClientLeaves(c) ==
    [c EXCEPT !.port = "closed",
              !.exit = IF c.pc = "hs_failed" THEN <<PEERING_FAILED>>
                       ELSE IF c.pc = "done" THEN <<ExitCodeOf(c.result)>>
                       ELSE <<>>,
              !.reports = ClientReports(c)]

\* run_server leaves its try block in state sv: by break (return 0) or by
\* an exception; the finally clause closes the port
ServerLeaves(sv) ==
    [sv EXCEPT !.port = "closed",
               !.exit = IF sv.pc = "stopped" THEN <<SUCCESS>> ELSE <<>>]

EmptyChan == [c2s |-> <<>>, s2c |-> <<>>]

\* LOG_PROGRESS_INTERVAL when SERIAL_LOG_INTERVAL is not set
LOG_PROGRESS_INTERVAL == 100

\* (msg_index + 1) % LOG_PROGRESS_INTERVAL == 0, the test before a
\* progress line is logged
progress_due(msg_index, interval) ==
    IF interval = 0 THEN "ZeroDivisionError"
    ELSE IF (msg_index + 1) % interval = 0 THEN "log"
    ELSE "none"

\* the environment: whether the line may lose or damage frames, what
\* happened to the frames written so far, and the configured log interval
QuietEnv ==
    [faulty |-> FALSE, faults |-> 0, noise |-> 0, lost |-> {}, damaged |-> {},
     acks |-> 0, fins |-> 0, fin_acks |-> 0, reachable |-> FALSE,
     log_interval |-> LOG_PROGRESS_INTERVAL]

NoCase ==
    [prefix |-> <<>>,
     src |-> [via |-> "raw", msg_type |-> 0, conn_id |-> <<>>, data |-> <<>>],
     flip |-> NoFlip]

InitCodec ==
    /\ tcase \in TestCases
    /\ rbuf = tcase.prefix \o FlipCrc(EncodeSource(tcase.src), tcase.flip)
    /\ rpos = 0
    /\ rets = <<>>
    /\ client = IdleClient
    /\ server = IdleServer
    /\ chan = EmptyChan
    /\ env = QuietEnv

(***************************************************************************)
(* Actions of the codec specification: one call of message.decode, one     *)
(* call of encoding.decode_message, on the reader.                         *)
(***************************************************************************)
DecodeCall ==
    /\ Len(rets) < MaxDecodeCalls
    /\ LET d == decode(rbuf, rpos)
       IN  /\ rpos' = d.pos
           /\ rets' = Append(rets,
                  [fn |-> "decode",
                   err |-> IF d.none THEN "None" ELSE "none",
                   payload |-> d.payload, msg_type |-> 0, conn_id |-> <<>>,
                   data |-> <<>>, crc_ok |-> d.crc_ok, from |-> rpos])
    /\ UNCHANGED <<rbuf, tcase>>
    /\ UNCHANGED protoVars

DecodeMessageCall ==
    /\ Len(rets) < MaxDecodeCalls
    /\ LET m == decode_message(rbuf, rpos)
       IN  /\ rpos' = m.pos
           /\ rets' = Append(rets,
                  [fn |-> "decode_message",
                   err |-> m.err,
                   payload |-> <<>>, msg_type |-> m.msg_type, conn_id |-> m.conn_id,
                   data |-> m.data, crc_ok |-> m.crc_ok, from |-> rpos])
    /\ UNCHANGED <<rbuf, tcase>>
    /\ UNCHANGED protoVars

NextCodec == DecodeCall \/ DecodeMessageCall

SpecCodec == InitCodec /\ [][NextCodec]_vars

(***************************************************************************)
(* The serial line.  A write puts a whole frame on the line; the line      *)
(* delivers it to the peer's input buffer, loses it, or delivers it with   *)
(* a damaged CRC byte.  A read is decode_message on the input buffer.      *)
(***************************************************************************)
Outcomes ==
    IF env.faulty /\ env.faults < MaxFaults THEN {"ok", "lost", "crc"} ELSE {"ok"}

Damage(frame) == FlipCrc(frame, [idx |-> 4, mask |-> 255])

\* the peer's input buffer after port.write(frame)
Wire(buf, frame, o) ==
    IF o = "lost" THEN buf
    ELSE IF o = "crc" THEN buf \o Damage(frame)
    ELSE buf \o frame

\* the record of what happened to the frame of type t
Logged(e, t, o) ==
    [e EXCEPT !.faults   = IF o = "ok" THEN @ ELSE @ + 1,
              !.lost     = IF o = "lost" THEN @ \cup {t} ELSE @,
              !.damaged  = IF o = "crc" THEN @ \cup {t} ELSE @,
              !.acks     = IF t = ACK THEN Min(@ + 1, 2) ELSE @,
              !.fins     = IF t = FIN /\ o = "ok" THEN Min(@ + 1, 2) ELSE @,
              !.fin_acks = IF t = FIN_ACK THEN Min(@ + 1, 2) ELSE @]

\* the input buffer after a read that consumed its first n bytes
Rest(buf, n) == SubSeq(buf, n + 1, Len(buf))

drain_input == <<>>

send_data(conn_id, payload) == encode_data(conn_id, payload)

RecvError(err, pos) ==
    [err |-> err, payload |-> <<>>, crc_ok |-> FALSE, msg_type |-> 0, pos |-> pos]

\* what recv_data makes of m, the result of decode_message
Received(m, conn_id) ==
    IF m.err # "none" THEN RecvError(m.err, m.pos)
    ELSE IF m.conn_id # conn_id THEN RecvError("ConnectionMismatchError", m.pos)
    ELSE IF m.msg_type = DATA
    THEN [err |-> "none", payload |-> m.data, crc_ok |-> m.crc_ok,
          msg_type |-> DATA, pos |-> m.pos]
    ELSE IF m.msg_type = FIN
    THEN [err |-> "none", payload |-> <<>>, crc_ok |-> FALSE,
          msg_type |-> FIN, pos |-> m.pos]
    ELSE RecvError("UnexpectedMessageError", m.pos)

\* (payload, crc_ok, msg_type), or the exception raised
recv_data(buf, conn_id) ==
    Val({ Received(m, conn_id) : m \in {decode_message(buf, 0)} })

ClientHandshakePcs == {"syn_top", "syn_read"}

ServerHandshakePcs == {"listen_top", "listen_read", "synack_top", "synack_read"}

(***************************************************************************)
(* The client: run_client = client_handshake, client_exchange (which ends  *)
(* in client_shutdown).                                                    *)
(***************************************************************************)
\* run_client calls client_handshake: drain, new conn_id, start of the SYN loop
ClientStart(id, n) ==
    /\ client.pc = "idle"
    /\ client' = [client EXCEPT !.pc = "syn_top", !.conn_id = id, !.msg_count = n,
                                !.elapsed = 0, !.since = LongAgo(SynInterval),
                                !.port = "open"]
    /\ chan' = [chan EXCEPT !.s2c = drain_input]
    /\ env' = [env EXCEPT !.reachable = server.pc \in {"listen_top", "listen_read"}]
    /\ UNCHANGED <<server, codecVars>>

\* the SYN loop's test, and the SYN it writes when one is due
ClientSynTop(o) ==
    /\ client.pc = "syn_top"
    /\ IF ~(client.elapsed < ClientTimeout)
       THEN /\ client' = ClientLeaves([client EXCEPT !.pc = "hs_failed"])
            /\ UNCHANGED <<chan, env>>
       ELSE IF client.since > SynInterval
       THEN /\ client' = [client EXCEPT !.pc = "syn_read", !.since = 0]
            /\ chan' = [chan EXCEPT !.c2s =
                           Wire(@, encode_control(SYN, client.conn_id), o)]
            /\ env' = Logged(env, SYN, o)
       ELSE /\ o = "ok"
            /\ client' = [client EXCEPT !.pc = "syn_read"]
            /\ UNCHANGED <<chan, env>>
    /\ UNCHANGED <<server, codecVars>>

\* SYN-ACK with the client's conn_id and a good CRC
ClientAccepts_AnyId(m) == m.msg_type = SYN_ACK /\ m.crc_ok

ClientAccepts_Syn(m) ==
    m.msg_type = SYN /\ m.conn_id = client.conn_id /\ m.crc_ok

ClientAccepts(m) ==
    m.msg_type = SYN_ACK /\ m.conn_id = client.conn_id /\ m.crc_ok

\* the SYN loop's read; on SYN-ACK the ACK with the session parameters is
\* written, client_handshake returns, run_client prints the peering report
\* and client_exchange starts
ClientSynGot(m, o) ==
    IF m.err = "none" /\ ClientAccepts(m)
    THEN /\ client' = [client EXCEPT !.pc = "xchg_top", !.i = 0,
                                     !.stats = _SessionStats,
                                     !.reports = @ \cup {"peering"}]
         /\ chan' = [c2s |-> Wire(chan.c2s,
                         encode_ack_with_params(client.conn_id,
                                                client.msg_count), o),
                     s2c |-> Rest(chan.s2c, m.pos)]
         /\ env' = Logged(env, ACK, o)
    ELSE /\ o = "ok"
         /\ client' = [client EXCEPT !.pc = "syn_top"]
         /\ chan' = [chan EXCEPT !.s2c = Rest(@, m.pos)]
         /\ UNCHANGED env

ClientSynRecv(o) ==
    /\ client.pc = "syn_read"
    /\ chan.s2c # <<>>
    /\ \E m \in {decode_message(chan.s2c, 0)} : ClientSynGot(m, o)
    /\ UNCHANGED <<server, codecVars>>

_handle_client_data_response_DropsBad(stats, response, crc_ok, rtt) ==
    IF crc_ok
    THEN [stats EXCEPT !.received = @ + 1, !.bytes_received = @ + Len(response),
                       !.crc_ok = @ + 1, !.rtt_samples = Append(@, rtt)]
    ELSE stats

_handle_client_data_response_SampleAlways(stats, response, crc_ok, rtt) ==
    LET counted == [stats EXCEPT !.received = @ + 1,
                                 !.bytes_received = @ + Len(response),
                                 !.rtt_samples = Append(@, rtt)]
    IN  IF crc_ok
        THEN [counted EXCEPT !.crc_ok = @ + 1]
        ELSE [counted EXCEPT !.crc_errors = @ + 1]

_handle_client_data_response(stats, response, crc_ok, rtt) ==
    LET counted == [stats EXCEPT !.received = @ + 1,
                                 !.bytes_received = @ + Len(response)]
    IN  IF crc_ok
        THEN [counted EXCEPT !.crc_ok = @ + 1, !.rtt_samples = Append(@, rtt)]
        ELSE [counted EXCEPT !.crc_errors = @ + 1]

\* the exceptions client_exchange and server_exchange catch around recv_data
CaughtInExchange_NoMismatch == {"TransportError", "EncodingError"}

CaughtInExchange == {"TransportError", "EncodingError", "ConnectionMismatchError"}

\* the head of client_exchange's loop: the next DATA is written, or, with all
\* rounds done (or none to do), client_shutdown starts
ClientExchangeTop(p, o) ==
    /\ client.pc = "xchg_top"
    /\ IF client.i < client.msg_count
       THEN LET frame == send_data(client.conn_id, p)
            IN  /\ client' = [client EXCEPT
                       !.pc = "xchg_recv", !.rtt = 0,
                       !.stats = [@ EXCEPT !.sent = @ + 1,
                                           !.bytes_sent = @ + Len(frame)]]
                /\ chan' = [chan EXCEPT !.c2s = Wire(@, frame, o)]
                /\ env' = Logged(env, DATA, o)
       ELSE /\ o = "ok"
            /\ client' = [client EXCEPT !.pc = "fin_top", !.elapsed = 0,
                                        !.since = LongAgo(FinInterval)]
            /\ UNCHANGED <<chan, env>>
    /\ UNCHANGED <<server, codecVars>>

\* recv_data in client_exchange, and what the loop does with its result; the
\* progress test of _handle_client_data_response raises when the interval
\* is 0
ClientExchangeGot_ShutdownAfterFin(r) ==
    /\ chan' = [chan EXCEPT !.s2c = Rest(@, r.pos)]
    /\ IF r.err \in CaughtInExchange
       THEN client' = ClientLeaves([client EXCEPT !.pc = "done",
                !.result = SessionResult(FALSE, "response_timeout",
                               client.i + 1, FALSE, FALSE, client.stats)])
       ELSE IF r.err # "none"
       THEN client' = ClientLeaves([client EXCEPT !.pc = "crashed"])
       ELSE IF /\ r.msg_type = DATA /\ r.crc_ok
               /\ progress_due(client.i, env.log_interval) = "ZeroDivisionError"
       THEN client' = ClientLeaves([client EXCEPT !.pc = "crashed",
                !.stats = _handle_client_data_response(
                              @, r.payload, r.crc_ok, client.rtt)])
       ELSE IF r.msg_type = DATA
       THEN client' = [client EXCEPT !.pc = "xchg_top", !.i = @ + 1,
                !.stats = _handle_client_data_response(
                              @, r.payload, r.crc_ok, client.rtt)]
       ELSE client' = [client EXCEPT !.pc = "fin_top", !.elapsed = 0,
                                     !.since = LongAgo(FinInterval)]

ClientExchangeGot(r) ==
    /\ chan' = [chan EXCEPT !.s2c = Rest(@, r.pos)]
    /\ IF r.err \in CaughtInExchange
       THEN client' = ClientLeaves([client EXCEPT !.pc = "done",
                !.result = SessionResult(FALSE, "response_timeout",
                               client.i + 1, FALSE, FALSE, client.stats)])
       ELSE IF r.err # "none"
       THEN client' = ClientLeaves([client EXCEPT !.pc = "crashed"])
       ELSE IF /\ r.msg_type = DATA /\ r.crc_ok
               /\ progress_due(client.i, env.log_interval) = "ZeroDivisionError"
       THEN client' = ClientLeaves([client EXCEPT !.pc = "crashed",
                !.stats = _handle_client_data_response(
                              @, r.payload, r.crc_ok, client.rtt)])
       ELSE IF r.msg_type = DATA
       THEN client' = [client EXCEPT !.pc = "xchg_top", !.i = @ + 1,
                !.stats = _handle_client_data_response(
                              @, r.payload, r.crc_ok, client.rtt)]
       ELSE client' = ClientLeaves([client EXCEPT !.pc = "done",
                !.result = SessionResult(FALSE, "server_fin", 0,
                               FALSE, FALSE, client.stats)])

ClientExchangeRecv ==
    /\ client.pc = "xchg_recv"
    /\ chan.s2c # <<>>
    /\ \E r \in {recv_data(chan.s2c, client.conn_id)} : ClientExchangeGot(r)
    /\ UNCHANGED <<server, env, codecVars>>

\* client_shutdown's loop test, and the FIN it writes when one is due; on
\* timeout client_exchange returns with fin_ack_received false
ClientFinTop_FinAtTimeout(o) ==
    /\ client.pc = "fin_top"
    /\ IF ~(client.elapsed < FinWaitTimeout)
       THEN /\ o = "ok"
            /\ client' = ClientLeaves([client EXCEPT !.pc = "done",
                   !.result = SessionResult(TRUE, "none", 0, FALSE, FALSE,
                                            client.stats)])
            /\ chan' = [chan EXCEPT !.c2s =
                           Wire(@, encode_control(FIN, client.conn_id), o)]
            /\ env' = Logged(env, FIN, o)
       ELSE IF client.since > FinInterval
       THEN /\ client' = [client EXCEPT !.pc = "fin_read", !.since = 0]
            /\ chan' = [chan EXCEPT !.c2s =
                           Wire(@, encode_control(FIN, client.conn_id), o)]
            /\ env' = Logged(env, FIN, o)
       ELSE /\ o = "ok"
            /\ client' = [client EXCEPT !.pc = "fin_read"]
            /\ UNCHANGED <<chan, env>>
    /\ UNCHANGED <<server, codecVars>>

ClientFinTop(o) ==
    /\ client.pc = "fin_top"
    /\ IF ~(client.elapsed < FinWaitTimeout)
       THEN /\ o = "ok"
            /\ client' = ClientLeaves([client EXCEPT !.pc = "done",
                   !.result = SessionResult(TRUE, "none", 0, FALSE, FALSE,
                                            client.stats)])
            /\ UNCHANGED <<chan, env>>
       ELSE IF client.since > FinInterval
       THEN /\ client' = [client EXCEPT !.pc = "fin_read", !.since = 0]
            /\ chan' = [chan EXCEPT !.c2s =
                           Wire(@, encode_control(FIN, client.conn_id), o)]
            /\ env' = Logged(env, FIN, o)
       ELSE /\ o = "ok"
            /\ client' = [client EXCEPT !.pc = "fin_read"]
            /\ UNCHANGED <<chan, env>>
    /\ UNCHANGED <<server, codecVars>>

\* FIN-ACK with the connection's id and a good CRC
ShutdownAccepts_Fin(m) ==
    m.msg_type = FIN /\ m.conn_id = client.conn_id /\ m.crc_ok

ShutdownAccepts_AnyId(m) ==
    m.msg_type = FIN_ACK /\ m.crc_ok

ShutdownAccepts_AnyCrc(m) ==
    m.msg_type = FIN_ACK /\ m.conn_id = client.conn_id

ShutdownAccepts(m) ==
    m.msg_type = FIN_ACK /\ m.conn_id = client.conn_id /\ m.crc_ok

\* client_shutdown's read; on FIN-ACK client_exchange returns with
\* fin_ack_received true
ClientFinGot(m) ==
    /\ chan' = [chan EXCEPT !.s2c = Rest(@, m.pos)]
    /\ IF m.err = "none" /\ ShutdownAccepts(m)
       THEN client' = ClientLeaves([client EXCEPT !.pc = "done",
                !.result = SessionResult(TRUE, "none", 0, TRUE, FALSE,
                                         client.stats)])
       ELSE client' = [client EXCEPT !.pc = "fin_top"]

ClientFinRecv ==
    /\ client.pc = "fin_read"
    /\ chan.s2c # <<>>
    /\ \E m \in {decode_message(chan.s2c, 0)} : ClientFinGot(m)
    /\ UNCHANGED <<server, env, codecVars>>

(***************************************************************************)
(* The server: run_server's loop = server_handshake, server_exchange       *)
(* (which ends in wait_for_fin and server_shutdown), and again.            *)
(***************************************************************************)
\* server_handshake begins: drain, start of the wait for SYN
ListenFrom(sv) ==
    [sv EXCEPT !.pc = "listen_top", !.conn_id = <<>>, !.msg_count = 0, !.i = 0,
               !.elapsed = 0, !.since = 0, !.error = "none",
               !.stats = _SessionStats, !.reports = {}]

\* run_server opens the port and enters its loop
ServerStart ==
    /\ server.pc = "idle"
    /\ server' = ListenFrom([server EXCEPT !.port = "open"])
    /\ chan' = [chan EXCEPT !.c2s = drain_input]
    /\ UNCHANGED <<client, env, codecVars>>

\* run_server's loop comes round after PeeringError or after a session:
\* the next server_handshake, or, after a signal, the way out
ServerLoop ==
    /\ server.pc \in {"hs_failed", "done"}
    /\ IF server.running
       THEN /\ server' = ListenFrom(server)
            /\ chan' = [chan EXCEPT !.c2s = drain_input]
       ELSE /\ server' = ServerLeaves([server EXCEPT !.pc = "stopped"])
            /\ UNCHANGED chan
    /\ UNCHANGED <<client, env, codecVars>>

\* PeeringError: the server stops being reachable for a client in its handshake
PeeringError(sv, what) == [sv EXCEPT !.pc = "hs_failed", !.error = what]

Unreached(e) ==
    [e EXCEPT !.reachable = IF client.pc \in ClientHandshakePcs THEN FALSE ELSE @]

\* server_wait_for_syn's loop test
ServerListenTop ==
    /\ server.pc = "listen_top"
    /\ IF ~(server.elapsed < ListenTimeout)
       THEN /\ server' = PeeringError(server, "syn_timeout")
            /\ env' = Unreached(env)
       ELSE /\ server' = [server EXCEPT !.pc = "listen_read"]
            /\ UNCHANGED env
    /\ UNCHANGED <<client, chan, codecVars>>

\* a SYN with a good CRC
ServerHears_AnyType(m) == m.crc_ok

ServerHears_AnyCrc(m) == m.msg_type = SYN

ServerHears(m) == m.msg_type = SYN /\ m.crc_ok

\* server_wait_for_syn's read; on SYN server_send_syn_ack_wait_ack starts
ServerListenGot(m) ==
    /\ chan' = [chan EXCEPT !.c2s = Rest(@, m.pos)]
    /\ IF m.err = "none" /\ ServerHears(m)
       THEN server' = [server EXCEPT !.pc = "synack_top",
                          !.conn_id = m.conn_id, !.elapsed = 0,
                          !.since = LongAgo(SynInterval)]
       ELSE server' = [server EXCEPT !.pc = "listen_top"]

ServerListenRecv ==
    /\ server.pc = "listen_read"
    /\ chan.c2s # <<>>
    /\ \E m \in {decode_message(chan.c2s, 0)} : ServerListenGot(m)
    /\ UNCHANGED <<client, env, codecVars>>

\* the SYN-ACK loop's test, and the SYN-ACK it writes when one is due
ServerSynAckTop(o) ==
    /\ server.pc = "synack_top"
    /\ IF ~(server.elapsed < AckTimeout)
       THEN /\ o = "ok"
            /\ server' = PeeringError(server, "ack_timeout")
            /\ UNCHANGED <<chan, env>>
       ELSE IF server.since > SynInterval
       THEN /\ server' = [server EXCEPT !.pc = "synack_read", !.since = 0]
            /\ chan' = [chan EXCEPT !.s2c =
                           Wire(@, encode_control(SYN_ACK, server.conn_id), o)]
            /\ env' = Logged(env, SYN_ACK, o)
       ELSE /\ o = "ok"
            /\ server' = [server EXCEPT !.pc = "synack_read"]
            /\ UNCHANGED <<chan, env>>
    /\ UNCHANGED <<client, codecVars>>

\* ACK with the connection's id and a good CRC
ServerAccepts_AnyType(m) == m.conn_id = server.conn_id /\ m.crc_ok

ServerAccepts(m) ==
    m.msg_type = ACK /\ m.conn_id = server.conn_id /\ m.crc_ok

\* the msg_count run_server hands to server_exchange
SessionMsgCount_Default(params) == 1

SessionMsgCount(params) == params.msg_count

\* the payload the server rebuilds for decode_ack_with_params
FullPayload(m) == <<ACK>> \o m.conn_id \o m.data

ServerSynAckParams_Optional(m) ==
    IF m.err = "none" /\ ServerAccepts(m)
    THEN IF Len(FullPayload(m)) < 1 + CONN_ID_SIZE + 4
         THEN [err |-> "none", conn_id |-> m.conn_id, msg_count |-> 0]
         ELSE decode_ack_with_params(FullPayload(m))
    ELSE [err |-> "ignored", conn_id |-> <<>>, msg_count |-> 0]

\* the session parameters of an ACK the loop accepts; any other frame, and an
\* ACK without parameters (EncodingError), leaves the loop going
ServerSynAckParams(m) ==
    IF m.err = "none" /\ ServerAccepts(m)
    THEN decode_ack_with_params(FullPayload(m))
    ELSE [err |-> "ignored", conn_id |-> <<>>, msg_count |-> 0]

ServerSynAckGot(m, params) ==
    /\ chan' = [chan EXCEPT !.c2s = Rest(@, m.pos)]
    /\ IF params.err = "none" /\ server.running
       THEN server' = [server EXCEPT !.pc = "xchg_top", !.i = 0,
                          !.msg_count = SessionMsgCount(params),
                          !.stats = _SessionStats, !.reports = {"peering"}]
       ELSE IF params.err = "none"
       THEN server' = ServerLeaves([server EXCEPT !.pc = "stopped"])
       ELSE server' = [server EXCEPT !.pc = "synack_top"]

\* the SYN-ACK loop's read; on an ACK that carries session parameters
\* server_handshake returns and run_server prints the peering report and
\* starts server_exchange, unless a signal came during the handshake
ServerSynAckRecv ==
    /\ server.pc = "synack_read"
    /\ chan.c2s # <<>>
    /\ \E m \in {decode_message(chan.c2s, 0)} :
           \E params \in {ServerSynAckParams(m)} : ServerSynAckGot(m, params)
    /\ UNCHANGED <<client, env, codecVars>>

\* the head of server_exchange's loop: the next recv_data, or, with all
\* rounds done (or none to do), wait_for_fin starts
ServerExchangeTop ==
    /\ server.pc = "xchg_top"
    /\ IF server.i < server.msg_count
       THEN server' = [server EXCEPT !.pc = "xchg_recv"]
       ELSE server' = [server EXCEPT !.pc = "finwait_top", !.elapsed = 0]
    /\ UNCHANGED <<client, chan, env, codecVars>>

\* the stats after a DATA was received and its echo, frame, written
_handle_server_data_CountsOk(stats, data, crc_ok, frame) ==
    [stats EXCEPT !.received = @ + 1, !.bytes_received = @ + Len(data),
                  !.crc_ok = @ + 1,
                  !.sent = @ + 1, !.bytes_sent = @ + Len(frame)]

_handle_server_data_PayloadBytes(stats, data, crc_ok, frame) ==
    LET counted == [stats EXCEPT !.received = @ + 1,
                                 !.bytes_received = @ + Len(data)]
        checked == IF crc_ok THEN [counted EXCEPT !.crc_ok = @ + 1]
                   ELSE [counted EXCEPT !.crc_errors = @ + 1]
    IN  [checked EXCEPT !.sent = @ + 1,
                        !.bytes_sent = @ + Len(data) + 3 * UINT32_SIZE]

_handle_server_data(stats, data, crc_ok, frame) ==
    LET counted == [stats EXCEPT !.received = @ + 1,
                                 !.bytes_received = @ + Len(data)]
        checked == IF crc_ok THEN [counted EXCEPT !.crc_ok = @ + 1]
                   ELSE [counted EXCEPT !.crc_errors = @ + 1]
    IN  [checked EXCEPT !.sent = @ + 1, !.bytes_sent = @ + Len(frame)]

\* run_server after server_exchange returned: the session report is printed
\* unless a signal arrived during the session
ServerReturns_DespiteSignal(sv) == [sv EXCEPT !.reports = @ \cup {"session"}]

ServerReturns(sv) ==
    [sv EXCEPT !.reports = IF sv.running THEN @ \cup {"session"} ELSE @]

\* server_shutdown: one FIN-ACK
server_shutdown_Fin(buf, conn_id, o) ==
    Wire(buf, encode_control(FIN, conn_id), o)

server_shutdown_Twice(buf, conn_id, o) ==
    Wire(Wire(buf, encode_control(FIN_ACK, conn_id), o),
         encode_control(FIN_ACK, conn_id), o)

server_shutdown_Silent(buf, conn_id, o) == buf

server_shutdown(buf, conn_id, o) == Wire(buf, encode_control(FIN_ACK, conn_id), o)

\* recv_data in server_exchange, and what the loop does with its result:
\* DATA is echoed, FIN is answered by server_shutdown
ServerExchangeGot(r, frame, o) ==
           IF r.err \in CaughtInExchange
           THEN /\ o = "ok"
                /\ server' = ServerReturns([server EXCEPT !.pc = "done",
                       !.result = SessionResult(FALSE, "message_timeout",
                                      server.i + 1, FALSE, FALSE, server.stats)])
                /\ chan' = [chan EXCEPT !.c2s = Rest(@, r.pos)]
                /\ UNCHANGED env
           ELSE IF r.err # "none"
           THEN /\ o = "ok"
                /\ server' = ServerLeaves([server EXCEPT !.pc = "crashed"])
                /\ chan' = [chan EXCEPT !.c2s = Rest(@, r.pos)]
                /\ UNCHANGED env
           ELSE IF r.msg_type = DATA
           THEN /\ server' =
                     IF progress_due(server.i, env.log_interval) = "ZeroDivisionError"
                     THEN ServerLeaves([server EXCEPT !.pc = "crashed",
                              !.stats = _handle_server_data(@, r.payload,
                                                            r.crc_ok, frame)])
                     ELSE [server EXCEPT !.pc = "xchg_top", !.i = @ + 1,
                              !.stats = _handle_server_data(@, r.payload,
                                                            r.crc_ok, frame)]
                /\ chan' = [c2s |-> Rest(chan.c2s, r.pos),
                            s2c |-> Wire(chan.s2c, frame, o)]
                /\ env' = Logged(env, DATA, o)
           ELSE /\ server' = ServerReturns([server EXCEPT !.pc = "done",
                       !.result = SessionResult(FALSE, "client_fin",
                                      server.stats.received, FALSE, TRUE,
                                      server.stats)])
                /\ chan' = [c2s |-> Rest(chan.c2s, r.pos),
                            s2c |-> server_shutdown(chan.s2c, server.conn_id, o)]
                /\ env' = Logged(env, FIN_ACK, o)

\* the echo: the payload received, or a random one when that is empty
Echo(r, p) == send_data(server.conn_id, IF r.payload # <<>> THEN r.payload ELSE p)

ServerExchangeEcho(r, p, o) ==
    \E frame \in {Echo(r, p)} : ServerExchangeGot(r, frame, o)

ServerExchangeRecv(p, o) ==
    /\ server.pc = "xchg_recv"
    /\ chan.c2s # <<>>
    /\ \E r \in {recv_data(chan.c2s, server.conn_id)} : ServerExchangeEcho(r, p, o)
    /\ UNCHANGED <<client, codecVars>>

\* wait_for_fin's loop test; on timeout server_exchange returns with
\* fin_received false
ServerFinWaitTop ==
    /\ server.pc = "finwait_top"
    /\ IF ~(server.elapsed < FinWaitTimeout)
       THEN server' = ServerReturns([server EXCEPT !.pc = "done",
                !.result = SessionResult(TRUE, "none", 0, FALSE, FALSE,
                                         server.stats)])
       ELSE server' = [server EXCEPT !.pc = "finwait_read"]
    /\ UNCHANGED <<client, chan, env, codecVars>>

\* FIN with the connection's id and a good CRC
FinAccepts_AnyId(m) == m.msg_type = FIN /\ m.crc_ok

FinAccepts(m) ==
    m.msg_type = FIN /\ m.conn_id = server.conn_id /\ m.crc_ok

\* wait_for_fin's read; on FIN server_shutdown writes FIN-ACK and
\* server_exchange returns with fin_received true
ServerFinWaitGot(m, o) ==
           IF m.err = "none" /\ FinAccepts(m)
           THEN /\ server' = ServerReturns([server EXCEPT !.pc = "done",
                       !.result = SessionResult(TRUE, "none", 0, FALSE, TRUE,
                                                server.stats)])
                /\ chan' = [c2s |-> Rest(chan.c2s, m.pos),
                            s2c |-> server_shutdown(chan.s2c, server.conn_id, o)]
                /\ env' = Logged(env, FIN_ACK, o)
           ELSE /\ o = "ok"
                /\ server' = [server EXCEPT !.pc = "finwait_top"]
                /\ chan' = [chan EXCEPT !.c2s = Rest(@, m.pos)]
                /\ UNCHANGED env

ServerFinWaitRecv(o) ==
    /\ server.pc = "finwait_read"
    /\ chan.c2s # <<>>
    /\ \E m \in {decode_message(chan.c2s, 0)} : ServerFinWaitGot(m, o)
    /\ UNCHANGED <<client, codecVars>>

(***************************************************************************)
(* Time.  A tick passes when every running process is blocked in a read    *)
(* on an empty input buffer: the read returns nothing (TransportError).    *)
(* The loops see one more tick on their clocks; recv_data's caller gives   *)
(* the session up.                                                         *)
(***************************************************************************)
ClientWaits ==
    client.pc \in {"syn_read", "xchg_recv", "fin_read"} /\ chan.s2c = <<>>

ClientQuiet == client.pc \in {"idle", "hs_failed", "done", "crashed"}

ServerWaits ==
    /\ server.pc \in {"listen_read", "synack_read", "xchg_recv", "finwait_read"}
    /\ chan.c2s = <<>>

ServerQuiet == server.pc \in {"idle", "crashed", "stopped"}

Later(c, top, timeout, interval) ==
    [c EXCEPT !.pc = top, !.elapsed = Min(@ + 1, timeout),
              !.since = Min(@ + 1, LongAgo(interval))]

ClientTicked_WaitsOn ==
    IF ~ClientWaits THEN client
    ELSE IF client.pc = "syn_read"
    THEN Later(client, "syn_top", ClientTimeout, SynInterval)
    ELSE IF client.pc = "fin_read"
    THEN Later(client, "fin_top", FinWaitTimeout, FinInterval)
    ELSE client

ClientTicked ==
    IF ~ClientWaits THEN client
    ELSE IF client.pc = "syn_read"
    THEN Later(client, "syn_top", ClientTimeout, SynInterval)
    ELSE IF client.pc = "fin_read"
    THEN Later(client, "fin_top", FinWaitTimeout, FinInterval)
    ELSE ClientLeaves([client EXCEPT !.pc = "done",
              !.result = SessionResult(FALSE, "response_timeout", client.i + 1,
                                       FALSE, FALSE, client.stats)])

ServerTicked_TimeoutSucceeds ==
    IF ~ServerWaits THEN server
    ELSE IF server.pc = "listen_read"
    THEN Later(server, "listen_top", ListenTimeout, SynInterval)
    ELSE IF server.pc = "synack_read"
    THEN Later(server, "synack_top", AckTimeout, SynInterval)
    ELSE IF server.pc = "finwait_read"
    THEN Later(server, "finwait_top", FinWaitTimeout, SynInterval)
    ELSE ServerReturns([server EXCEPT !.pc = "done",
              !.result = SessionResult(TRUE, "none", 0,
                                       FALSE, FALSE, server.stats)])

ServerTicked ==
    IF ~ServerWaits THEN server
    ELSE IF server.pc = "listen_read"
    THEN Later(server, "listen_top", ListenTimeout, SynInterval)
    ELSE IF server.pc = "synack_read"
    THEN Later(server, "synack_top", AckTimeout, SynInterval)
    ELSE IF server.pc = "finwait_read"
    THEN Later(server, "finwait_top", FinWaitTimeout, SynInterval)
    ELSE ServerReturns([server EXCEPT !.pc = "done",
              !.result = SessionResult(FALSE, "message_timeout", server.i + 1,
                                       FALSE, FALSE, server.stats)])

Tick ==
    /\ ClientWaits \/ ClientQuiet
    /\ ServerWaits \/ ServerQuiet
    /\ ClientWaits \/ ServerWaits
    /\ client' = ClientTicked
    /\ server' = ServerTicked
    /\ UNCHANGED <<chan, env, codecVars>>

\* bytes that reach the server's input from something that is not a client
\* in its handshake: any frame but a SYN with a good CRC
NoiseFrames ==
    LET id == <<1, 2, 3, 4>>
    IN  { Damage(encode_control(SYN, id)),
          encode_control(SYN_ACK, id),
          encode_ack_with_params(id, 1),
          encode_data(id, HELLO),
          encode_control(FIN, id),
          encode(<<>>),
          <<1, 2, 3>> }

InjectNoise(frame) ==
    /\ env.noise < MaxNoise
    /\ server.pc # "idle"
    /\ chan' = [chan EXCEPT !.c2s = @ \o frame]
    /\ env' = [env EXCEPT !.noise = @ + 1]
    /\ UNCHANGED <<client, server, codecVars>>

(***************************************************************************)
(* Specifications of the protocol                                          *)
(***************************************************************************)
InitProto ==
    /\ rbuf = <<>>
    /\ rpos = 0
    /\ tcase = NoCase
    /\ rets = <<>>
    /\ client = IdleClient
    /\ server = IdleServer

ClientStep ==
    \/ \E o \in Outcomes : ClientSynTop(o)
    \/ \E o \in Outcomes : ClientSynRecv(o)
    \/ \E o \in Outcomes, p \in Payloads : ClientExchangeTop(p, o)
    \/ ClientExchangeRecv
    \/ \E o \in Outcomes : ClientFinTop(o)
    \/ ClientFinRecv

ServerStep ==
    \/ ServerLoop
    \/ ServerListenTop
    \/ ServerListenRecv
    \/ \E o \in Outcomes : ServerSynAckTop(o)
    \/ ServerSynAckRecv
    \/ ServerExchangeTop
    \/ \E o \in Outcomes, p \in Payloads : ServerExchangeRecv(p, o)
    \/ ServerFinWaitTop
    \/ \E o \in Outcomes : ServerFinWaitRecv(o)

Next ==
    \/ \E id \in ConnIds, n \in 0..MaxMsgCount : ClientStart(id, n)
    \/ ServerStart
    \/ ClientStep
    \/ ServerStep
    \/ Tick

\* a line that may lose frames or damage them, MaxFaults times in all
Init ==
    /\ InitProto
    /\ chan = EmptyChan
    /\ env = [QuietEnv EXCEPT !.faulty = TRUE]

Spec == Init /\ [][Next]_vars

\* a line that delivers every frame intact; both processes keep running and
\* time keeps passing
InitTimely ==
    /\ InitProto
    /\ chan = EmptyChan
    /\ env = QuietEnv

SpecTimely ==
    /\ InitTimely
    /\ [][Next]_vars
    /\ WF_vars(ClientStep)
    /\ WF_vars(ServerStep)
    /\ WF_vars(Tick)

\* a server and no client: what reaches the server is stale input and noise
ListenStep == ServerLoop \/ ServerListenTop \/ ServerListenRecv

NextServerAlone ==
    \/ ServerStart
    \/ ListenStep
    \/ Tick
    \/ \E frame \in NoiseFrames : InjectNoise(frame)

InitServerAlone ==
    /\ InitProto
    /\ chan \in { EmptyChan,
                  [c2s |-> encode_control(SYN, <<1, 2, 3, 4>>), s2c |-> <<>>] }
    /\ env = QuietEnv

SpecServerAlone ==
    /\ InitServerAlone
    /\ [][NextServerAlone]_vars
    /\ WF_vars(ServerStart)
    /\ WF_vars(ListenStep)
    /\ WF_vars(Tick)

(***************************************************************************)
(* Properties of the protocol                                              *)
(***************************************************************************)
\* client_handshake has returned a Connection
ClientConnected ==
    client.pc \in {"xchg_top", "xchg_recv", "fin_top", "fin_read", "done", "crashed"}

\* server_handshake has returned a Connection, and run_server has not yet
\* gone back to server_handshake
ServerConnected ==
    server.pc \in {"xchg_top", "xchg_recv", "finwait_top", "finwait_read",
                   "done", "crashed"}

\* C1: whenever client_handshake and server_handshake have both returned a
\* Connection, the two carry the same connection_id and the same msg_count,
\* the one the client passed in, and the server's exchange loop runs to
\* exactly that count: it never starts a round beyond it and waits for FIN
\* only after that many rounds.  Checked on the line that loses and damages
\* frames.
C1_SameConnection ==
    (ClientConnected /\ ServerConnected)
    => /\ server.conn_id = client.conn_id
       /\ server.msg_count = client.msg_count
       /\ server.i <= client.msg_count
       /\ server.pc \in {"finwait_top", "finwait_read"}
              => server.i = client.msg_count

C1_Witness ==
    /\ client.pc = "xchg_recv"
    /\ server.pc = "xchg_recv"
    /\ server.i = 1
    /\ client.msg_count = MaxMsgCount
    /\ server.msg_count = MaxMsgCount
    /\ server.conn_id = <<170, 187, 204, 221>>
    /\ env.faults > 0

ExpectedStats(stats, n) ==
    /\ stats.sent = n
    /\ stats.received = n
    /\ stats.crc_ok = n
    /\ stats.crc_errors = 0

C2_Results ==
    /\ client.result.returned
           => /\ ExpectedStats(client.result.stats, client.msg_count)
              /\ client.result.success
              /\ client.result.fin_ack_received
    /\ server.result.returned
           => /\ ExpectedStats(server.result.stats, client.msg_count)
              /\ server.result.success
              /\ server.result.fin_received

\* C2: on a line that delivers every frame intact and in order, once both
\* sides hold the Connection with msg_count = N both sides return, and every
\* result returned has sent = received = crc_ok = N, crc_errors = 0 and
\* success = true, the client's with fin_ack_received = true and the server's
\* with fin_received = true.
C2_HappyPath ==
    /\ []C2_Results
    /\ (ClientConnected /\ ServerConnected)
           ~> (client.result.returned /\ server.result.returned)

C2_Witness ==
    /\ client.result.returned
    /\ server.result.returned
    /\ client.msg_count = MaxMsgCount
    /\ client.result.stats.received = MaxMsgCount
    /\ server.result.stats.sent = MaxMsgCount
    /\ client.result.fin_ack_received
    /\ server.result.fin_received

C4_ServerTimesOut ==
    /\ [](server.pc \in {"idle", "listen_top", "listen_read", "hs_failed"})
    /\ [](server.pc = "hs_failed" => server.error = "syn_timeout")
    /\ (server.pc \in ServerHandshakePcs) ~> (server.pc = "hs_failed")

C4_Witness ==
    /\ server.pc = "hs_failed"
    /\ server.error = "syn_timeout"
    /\ env.noise = MaxNoise

\* C5: the client writes its ACK once.  When that ACK is lost or damaged on
\* the line it is not recovered: the server never gets past the handshake of
\* that connection and never runs an exchange.  The SYN-ACKs the server
\* retransmits are not answered with a second ACK, and the DATA frame the
\* client sends is ignored by the wait for ACK.
C5_LostAckNotRecovered ==
    /\ env.acks <= 1
    /\ (ACK \in (env.lost \cup env.damaged))
           => /\ server.pc \in ({"idle", "hs_failed"} \cup ServerHandshakePcs)
              /\ ~server.result.returned

C5_Witness ==
    /\ ACK \in env.lost
    /\ env.faults = 1
    /\ client.stats.sent >= 1
    /\ server.pc = "hs_failed"
    /\ server.error = "ack_timeout"

\* C5 as claimed: with the single ACK lost and every other frame delivered,
\* the DATA frame the client sends lets the server establish the Connection,
\* so the server's handshake does not end in the timeout waiting for ACK.
C5_LostAckRecovered ==
    (ACK \in env.lost /\ env.faults = 1 /\ client.stats.sent >= 1)
        => ~(server.pc = "hs_failed" /\ server.error = "ack_timeout")

\* C6: the server writes FIN-ACK once for a session.  When that FIN-ACK is
\* lost or damaged on the line the FINs the client retransmits are not
\* answered, and client_shutdown never returns true: the client's result has
\* fin_ack_received = false.
C6_LostFinAckNotRecovered ==
    /\ env.fin_acks <= 1
    /\ (FIN_ACK \in (env.lost \cup env.damaged))
           => ~client.result.fin_ack_received

C6_Witness ==
    /\ FIN_ACK \in env.lost
    /\ env.faults = 1
    /\ env.fins = 2
    /\ client.result.returned
    /\ client.result.success
    /\ ~client.result.fin_ack_received
    /\ server.result.fin_received
    /\ client.msg_count = MaxMsgCount

\* C6 as claimed: with the single FIN-ACK lost and every other frame
\* delivered, the retransmitted FIN among them, the retransmitted FIN is
\* answered and client_shutdown returns true.
C6_LostFinAckRecovered ==
    (FIN_ACK \in env.lost /\ env.faults = 1 /\ env.fins = 2
         /\ client.result.returned /\ client.result.success)
        => client.result.fin_ack_received

(***************************************************************************)
(* A server whose peer may write any frame at any time: the frames of a    *)
(* session with conn_id PeerId, and the frames the server must not take    *)
(* for them (foreign conn_id, bad CRC, ACK without a full msg_count,       *)
(* types that have no place in the phase).                                 *)
(***************************************************************************)
MaxPeerFrames == 4

MaxHandshakeFrames == 3

PeerId == <<1, 2, 3, 4>>

ForeignId == <<170, 187, 204, 221>>

PeerPayload == Fill(MIN_PAYLOAD_SIZE, 65)

\* ACK frames whose tail is no full msg_count
ShortAcks ==
    { encode_control(ACK, PeerId),
      encode(<<ACK>> \o PeerId \o <<1, 0, 0>>) }

\* what a peer may write while the server is in its handshake
HandshakePeerFrames ==
    { encode_control(SYN, PeerId),
      encode_ack_with_params(PeerId, 0),
      encode_ack_with_params(PeerId, MaxMsgCount),
      encode_ack_with_params(ForeignId, 1),
      Damage(encode_ack_with_params(PeerId, 1)),
      encode_control(SYN_ACK, PeerId),
      encode_data(PeerId, PeerPayload),
      encode_control(FIN, PeerId) }
        \cup ShortAcks

ServerPeerFrames ==
    { encode_control(SYN, PeerId),
      encode_ack_with_params(PeerId, 0),
      encode_ack_with_params(PeerId, MaxMsgCount),
      encode_control(SYN_ACK, PeerId),
      encode_data(PeerId, PeerPayload),
      Damage(encode_data(PeerId, PeerPayload)),
      encode_data(ForeignId, PeerPayload),
      encode_control(FIN, PeerId),
      encode_control(FIN, ForeignId) }

\* the peer writes a frame; it reaches the server's input whole
PeerWrites(frame, limit) ==
    /\ env.noise < limit
    /\ server.pc \notin {"idle", "crashed"}
    /\ chan' = [chan EXCEPT !.c2s = @ \o frame]
    /\ env' = [env EXCEPT !.noise = @ + 1]
    /\ UNCHANGED <<client, server, codecVars>>

NextServerPeer ==
    \/ ServerStart
    \/ ServerStep
    \/ Tick
    \/ \E frame \in ServerPeerFrames : PeerWrites(frame, MaxPeerFrames)

InitServerPeer ==
    /\ InitProto
    /\ chan = EmptyChan
    /\ env = QuietEnv

SpecServerPeer == InitServerPeer /\ [][NextServerPeer]_vars

\* server_handshake alone against such a peer, up to its return
HandshakeStep ==
    \/ ListenStep
    \/ \E o \in Outcomes : ServerSynAckTop(o)
    \/ ServerSynAckRecv

NextServerHandshake ==
    \/ ServerStart
    \/ HandshakeStep
    \/ Tick
    \/ \E frame \in HandshakePeerFrames : PeerWrites(frame, MaxHandshakeFrames)

SpecServerHandshake ==
    /\ InitServerPeer
    /\ [][NextServerHandshake]_vars
    /\ WF_vars(HandshakeStep)
    /\ WF_vars(Tick)

\* buf begins with the bytes of frame
HeadIs(buf, frame) ==
    Len(buf) >= Len(frame) /\ SubSeq(buf, 1, Len(frame)) = frame

ServerInSynAck == server.pc \in {"synack_top", "synack_read"}

\* C12: while the server sends SYN-ACK and waits for ACK, the only step that
\* completes the handshake reads an ACK with the adopted conn_id, a good CRC
\* and a 4-byte msg_count, which becomes the session's msg_count; every other
\* frame read leaves the server in the phase with the conn_id it adopted; the
\* phase is left otherwise only by PeeringError once the ACK timeout has
\* elapsed; and the phase is always left.
C12_SynAckPhase ==
    /\ [][ ServerInSynAck =>
             /\ server'.pc \in {"synack_top", "synack_read", "xchg_top", "hs_failed"}
             /\ server'.pc # "hs_failed" => server'.conn_id = server.conn_id
             /\ server'.pc = "xchg_top" =>
                   \E n \in 0..MaxMsgCount :
                       /\ HeadIs(chan.c2s, encode_ack_with_params(server.conn_id, n))
                       /\ server'.msg_count = n
             /\ server'.pc = "hs_failed" =>
                   /\ server'.error = "ack_timeout"
                   /\ server.elapsed >= AckTimeout ]_vars
    /\ ServerInSynAck ~> ~ServerInSynAck

\* the peer's SYN was adopted, the frames that followed were read, none a
\* completing ACK, and the wait ended in PeeringError
C12_Witness ==
    /\ server.pc = "hs_failed"
    /\ server.error = "ack_timeout"
    /\ server.conn_id = PeerId
    /\ server.elapsed = AckTimeout
    /\ env.noise = MaxHandshakeFrames
    /\ chan.c2s = <<>>

(***************************************************************************)
(* A client whose peer may write any frame at any time: the frames of a    *)
(* session with conn_id PeerId, and the frames the client must not take    *)
(* for them.                                                               *)
(***************************************************************************)
\* a frame whose payload has an unknown type byte, and one with no payload
UnknownTypeFrame == encode(<<99>> \o PeerId)

EmptyFrame == encode(<<>>)

ClientPeerFrames ==
    { encode_control(SYN_ACK, PeerId),
      encode_data(PeerId, PeerPayload),
      Damage(encode_data(PeerId, PeerPayload)),
      encode_data(ForeignId, PeerPayload),
      encode_control(FIN, PeerId),
      encode_control(FIN_ACK, PeerId),
      encode_control(FIN_ACK, ForeignId),
      Damage(encode_control(FIN_ACK, PeerId)),
      UnknownTypeFrame,
      EmptyFrame,
      TruncatedHeader }

\* the peer writes a frame once the client has read the one before; it
\* reaches the client's input whole
PeerAnswers(frame, limit) ==
    /\ env.noise < limit
    /\ ~ClientQuiet
    /\ chan.s2c = <<>>
    /\ chan' = [chan EXCEPT !.s2c = @ \o frame]
    /\ env' = [env EXCEPT !.noise = @ + 1]
    /\ UNCHANGED <<client, server, codecVars>>

NextClientPeer ==
    \/ \E n \in 0..MaxMsgCount : ClientStart(PeerId, n)
    \/ ClientStep
    \/ Tick
    \/ \E frame \in ClientPeerFrames : PeerAnswers(frame, MaxPeerFrames)

SpecClientPeer ==
    /\ InitServerPeer
    /\ [][NextClientPeer]_vars
    /\ WF_vars(ClientStep)
    /\ WF_vars(Tick)

\* the client's read of round i meets a timeout, a frame that does not
\* decode, or a frame of another connection
C13_ReadFails ==
    /\ client.pc = "xchg_recv"
    /\ client'.pc # "xchg_recv"
    /\ \/ chan.s2c = <<>>
       \/ chan.s2c \in { TruncatedHeader, EmptyFrame, UnknownTypeFrame,
                         encode_data(ForeignId, PeerPayload),
                         encode_control(FIN_ACK, ForeignId) }

\* C13: in client_exchange a transport, encoding or connection-mismatch
\* error while waiting for the response of round i ends the loop: the result
\* has success false, the error "timeout waiting for response to message
\* i+1", and the statistics so far (sent = i+1, received = i); the client
\* writes nothing after it.
C13_ClientAbort ==
    /\ [][ C13_ReadFails =>
             /\ client'.pc = "done"
             /\ client'.result = [returned |-> TRUE, success |-> FALSE,
                                  error |-> "response_timeout",
                                  error_n |-> client.i + 1,
                                  fin_ack_received |-> FALSE,
                                  fin_received |-> FALSE,
                                  stats |-> client.stats]
             /\ client.stats.sent = client.i + 1
             /\ client.stats.received = client.i
             /\ chan'.c2s = chan.c2s ]_vars
    /\ [][ client.pc = "done" => client'.pc = "done" /\ chan'.c2s = chan.c2s ]_vars

\* the second of two rounds is given up after one answered round
C13_Witness ==
    /\ client.pc = "done"
    /\ client.result.error = "response_timeout"
    /\ client.result.error_n = 2
    /\ client.result.stats.sent = 2
    /\ client.result.stats.received = 1
    /\ client.msg_count = 2
    /\ env.noise = 3
    /\ chan.s2c = <<>>

\* the client is past its handshake in a session of no rounds
C14_ZeroSession ==
    client.msg_count = 0 /\ client.pc \in {"xchg_top", "xchg_recv", "fin_top", "fin_read", "done", "crashed"}

\* C14 (as the code has it): with msg_count = 0 the client sends no DATA
\* frame and goes from the handshake directly to client_shutdown, whose FINs
\* are all it writes; sent = received = 0; and the result has success true
\* whether or not a FIN-ACK arrived, fin_ack_received telling the two apart.
C14_ZeroRounds ==
    /\ [][ C14_ZeroSession' =>
             /\ client'.pc \in {"xchg_top", "fin_top", "fin_read", "done"}
             /\ client'.stats = _SessionStats
             /\ client.pc = "xchg_top" /\ client' # client => client'.pc = "fin_top"
             /\ C14_ZeroSession /\ chan'.c2s # chan.c2s =>
                    chan'.c2s = chan.c2s \o encode_control(FIN, client.conn_id)
             /\ client'.pc = "done" /\ client.pc # "done" =>
                    /\ client'.result.success
                    /\ client'.result.error = "none"
                    /\ client'.result.stats = _SessionStats
                    /\ client'.result.fin_ack_received =
                           /\ client.pc = "fin_read"
                           /\ chan.s2c = encode_control(FIN_ACK, client.conn_id)
                    /\ ~client'.result.fin_ack_received =>
                           client.elapsed >= FinWaitTimeout ]_vars

\* a session of no rounds whose shutdown timed out
C14_Witness ==
    /\ client.msg_count = 0
    /\ client.pc = "done"
    /\ client.result.success
    /\ ~client.result.fin_ack_received
    /\ client.elapsed = FinWaitTimeout
    /\ client.result.stats.sent = 0

\* C14 as stated: with msg_count = 0, success is false when no FIN-ACK is
\* received within the shutdown timeout.
C14_NoFinAckFails ==
    client.msg_count = 0 /\ client.pc = "done" /\ ~client.result.fin_ack_received
        => ~client.result.success

\* the server's read of round i finds the client's FIN
C15_EarlyFin ==
    /\ server.pc = "xchg_recv"
    /\ server' # server
    /\ HeadIs(chan.c2s, encode_control(FIN, server.conn_id))

\* C15: when the server receives FIN(conn_id) in round i of its exchange
\* loop, before msg_count DATA frames were received, the session ends with
\* success false and the error "client sent FIN after i messages", one
\* FIN-ACK(conn_id) is written, fin_received is true and the counters are
\* those of the i completed rounds.
C15_ServerEarlyFin ==
    [][ C15_EarlyFin =>
          /\ server.i < server.msg_count
          /\ server'.pc = "done"
          /\ server'.result = [returned |-> TRUE, success |-> FALSE,
                               error |-> "client_fin", error_n |-> server.i,
                               fin_ack_received |-> FALSE,
                               fin_received |-> TRUE,
                               stats |-> server.stats]
          /\ server.stats.received = server.i
          /\ server.stats.sent = server.i
          /\ server.stats.crc_ok + server.stats.crc_errors = server.i
          /\ chan'.s2c = chan.s2c \o encode_control(FIN_ACK, server.conn_id) ]_vars

\* FIN after one of two rounds
C15_Witness ==
    /\ server.pc = "done"
    /\ server.msg_count = 2
    /\ server.result.error = "client_fin"
    /\ server.result.error_n = 1
    /\ server.result.fin_received
    /\ server.result.stats.received = 1
    /\ server.result.stats.sent = 1
    /\ env.noise = MaxPeerFrames

ClientInShutdown == client.pc \in {"fin_top", "fin_read"}

\* the frame client_shutdown waits for is the next to be read
C16_FinAckNext ==
    client.pc = "fin_read" /\ chan.s2c = encode_control(FIN_ACK, client.conn_id)

\* C16: client_shutdown sends FIN(conn_id) at once and again whenever more
\* than FinInterval has passed since the last one, until a FIN-ACK with the
\* same conn_id and a good CRC is read or FinWaitTimeout has elapsed; every
\* other frame read (one that does not decode, a FIN-ACK with a foreign
\* conn_id or a bad CRC, any other type) is dropped and changes nothing; it
\* returns true exactly when that FIN-ACK was read; and it always returns.
C16_ClientShutdown ==
    /\ [][ ~ClientInShutdown /\ ClientInShutdown' =>
             client'.pc = "fin_top" /\ client'.elapsed = 0
             /\ client'.since > FinInterval ]_vars
    /\ [][ ClientInShutdown /\ client' # client =>
             /\ client'.pc \in {"fin_top", "fin_read", "done"}
             /\ client'.conn_id = client.conn_id
             /\ client'.stats = client.stats
             /\ LET due == /\ client.pc = "fin_top"
                           /\ client.elapsed < FinWaitTimeout
                           /\ client.since > FinInterval
                IN  chan'.c2s = IF due
                                THEN chan.c2s \o encode_control(FIN, client.conn_id)
                                ELSE chan.c2s
             /\ client.pc = "fin_read" /\ chan.s2c # <<>> /\ ~C16_FinAckNext =>
                    /\ client' = [client EXCEPT !.pc = "fin_top"]
                    /\ chan'.s2c = <<>>
             /\ client'.pc = "done" =>
                    /\ client'.result.fin_ack_received = C16_FinAckNext
                    /\ ~C16_FinAckNext =>
                           client.pc = "fin_top" /\ client.elapsed >= FinWaitTimeout
             /\ C16_FinAckNext => client'.pc = "done" ]_vars
    /\ ClientInShutdown ~> client.pc = "done"

\* the FIN-ACK came after a second FIN and other frames
C16_Witness ==
    /\ client.pc = "done"
    /\ client.result.fin_ack_received
    /\ client.elapsed = FinWaitTimeout - 1
    /\ env.fins = 2
    /\ env.noise = MaxPeerFrames
    /\ chan.s2c = <<>>

(***************************************************************************)
(* One side against a peer that may write any frame: either run_client or  *)
(* run_server is started, and the frames it reads are the peer's, each     *)
(* written once the one before has been read.                              *)
(***************************************************************************)
\* a frame whose first conn_id byte, or first data byte, changed on the line
DamageId(frame) == [frame EXCEPT ![2 * UINT32_SIZE + 2] = Xor(@, 1)]

DamageData(frame) ==
    [frame EXCEPT ![2 * UINT32_SIZE + 2 + CONN_ID_SIZE] = Xor(@, 1)]

PeerData == encode_data(PeerId, PeerPayload)

ToClientFrames ==
    { encode_control(SYN_ACK, PeerId),
      PeerData, Damage(PeerData), DamageData(PeerData), DamageId(PeerData),
      encode_data(ForeignId, PeerPayload),
      encode_control(FIN, PeerId), Damage(encode_control(FIN, PeerId)),
      encode_control(FIN_ACK, PeerId) }

ToServerFrames ==
    { encode_control(SYN, PeerId),
      encode_ack_with_params(PeerId, 0),
      encode_ack_with_params(PeerId, MaxMsgCount),
      PeerData, Damage(PeerData), DamageData(PeerData), DamageId(PeerData),
      encode_data(ForeignId, PeerPayload),
      encode_control(FIN, PeerId), Damage(encode_control(FIN, PeerId)),
      encode_control(SYN_ACK, PeerId) }

\* the peer writes a frame once the server has read the one before
PeerSends(frame, limit) ==
    /\ chan.c2s = <<>>
    /\ server.pc # "stopped"
    /\ PeerWrites(frame, limit)

NextOneSide ==
    \/ server.pc = "idle" /\ \E n \in 0..MaxMsgCount : ClientStart(PeerId, n)
    \/ ClientStep
    \/ client.pc = "idle" /\ ServerStart
    \/ ServerStep
    \/ Tick
    \/ \E frame \in ToClientFrames : PeerAnswers(frame, MaxPeerFrames)
    \/ \E frame \in ToServerFrames : PeerSends(frame, MaxPeerFrames)

SpecOneSide == InitServerPeer /\ [][NextOneSide]_vars

\* a DATA frame of the connection that arrives with a CRC mismatch, with the
\* data decode_message reads from it: the damage is in the CRC field or in
\* the data
C17_Mismatched ==
    { <<Damage(PeerData), PeerPayload>>,
      <<DamageData(PeerData), [PeerPayload EXCEPT ![1] = Xor(@, 1)]>> }

C17_ServerContinues(data) ==
    /\ server'.pc = "xchg_top"
    /\ server'.i = server.i + 1
    /\ server'.stats = [server.stats EXCEPT
                           !.received = @ + 1, !.crc_errors = @ + 1,
                           !.bytes_received = @ + Len(data),
                           !.sent = @ + 1,
                           !.bytes_sent = @ + Len(encode_data(PeerId, data))]
    /\ chan'.s2c = chan.s2c \o encode_data(server.conn_id, data)

C17_ClientContinues(data) ==
    /\ client'.pc = "xchg_top"
    /\ client'.i = client.i + 1
    /\ client'.stats = [client.stats EXCEPT
                           !.received = @ + 1, !.crc_errors = @ + 1,
                           !.bytes_received = @ + Len(data)]

C17_ServerReads(frame) ==
    server.pc = "xchg_recv" /\ server' # server /\ chan.c2s = frame

C17_ClientReads(frame) ==
    client.pc = "xchg_recv" /\ client' # client /\ chan.s2c = frame

\* C17 (as the code has it): a DATA frame that arrives with a CRC mismatch
\* and still carries the connection's conn_id does not end the session: the
\* side that reads it counts received and crc_errors (not crc_ok), the
\* server writes its echo of the data as read, and the loop goes on to the
\* next round.  When the conn_id bytes are what changed, the frame is one of
\* a foreign connection and the exchange ends with success false, nothing
\* counted and nothing echoed.
C17_CrcMismatch ==
    /\ [][ \A fd \in C17_Mismatched :
             /\ C17_ServerReads(fd[1]) => C17_ServerContinues(fd[2])
             /\ C17_ClientReads(fd[1]) => C17_ClientContinues(fd[2]) ]_vars
    /\ [][ /\ C17_ServerReads(DamageId(PeerData)) =>
                /\ server'.pc = "done"
                /\ ~server'.result.success
                /\ server'.result.stats = server.stats
                /\ chan'.s2c = chan.s2c
           /\ C17_ClientReads(DamageId(PeerData)) =>
                /\ client'.pc = "done"
                /\ ~client'.result.success
                /\ client'.result.stats = client.stats ]_vars

\* the server has answered two rounds, one of them with a CRC mismatch
C17_Witness ==
    /\ server.pc = "finwait_read"
    /\ server.stats.received = 2
    /\ server.stats.crc_errors = 1
    /\ server.stats.crc_ok = 1
    /\ server.stats.sent = 2

\* C17 as stated: no DATA frame that arrives with a CRC mismatch ends the
\* session; it is counted (received, crc_errors), echoed by the server, and
\* the next round follows.
C17_NeverAborts ==
    [][ \A fd \in C17_Mismatched \cup { <<DamageId(PeerData), PeerPayload>> } :
          /\ C17_ServerReads(fd[1]) => C17_ServerContinues(fd[2])
          /\ C17_ClientReads(fd[1]) => C17_ClientContinues(fd[2]) ]_vars

\* the server's read of round i finds a DATA frame of another connection
C18_ForeignData ==
    /\ server.pc = "xchg_recv"
    /\ server' # server
    /\ chan.c2s = encode_data(ForeignId, PeerPayload)

\* what server_exchange returns when the read of round i times out
C18_TimeoutResult ==
    [returned |-> TRUE, success |-> FALSE, error |-> "message_timeout",
     error_n |-> server.i + 1, fin_ack_received |-> FALSE,
     fin_received |-> FALSE, stats |-> server.stats]

\* C18: when the server receives a DATA frame for a foreign conn_id during a
\* session, the session aborts with an error that tells a connection
\* mismatch from a timeout, a premature FIN and a CRC mismatch, and shutdown
\* is still attempted (the wait for FIN, or the FIN-ACK).
C18_MismatchClassified ==
    [][ C18_ForeignData =>
          /\ server'.result.returned => ~server'.result.success
          /\ server'.result.returned =>
                 /\ server'.result # C18_TimeoutResult
                 /\ server'.result.error \notin {"none", "message_timeout", "client_fin"}
          /\ \/ server'.pc \in {"finwait_top", "finwait_read"}
             \/ chan'.s2c = chan.s2c \o encode_control(FIN_ACK, server.conn_id) ]_vars

(***************************************************************************)
(* run_client and run_server as wholes: the port they open, the signal     *)
(* that stops the server, the exceptions nothing catches, the exit code.   *)
(***************************************************************************)
ClientRuns == client.pc \notin {"idle", "hs_failed", "done", "crashed"}

ServerRuns == server.pc \notin {"idle", "stopped", "crashed"}

\* handle_signal: SIGINT or SIGTERM reaches run_server
Signal ==
    /\ ServerRuns
    /\ server.running
    /\ server' = [server EXCEPT !.running = FALSE]
    /\ UNCHANGED <<client, chan, env, codecVars>>

\* an exception no handler catches (the port's own error, KeyboardInterrupt)
\* leaves client_handshake or client_exchange
ClientRaises ==
    /\ ClientRuns
    /\ client' = ClientLeaves([client EXCEPT !.pc = "crashed"])
    /\ UNCHANGED <<server, chan, env, codecVars>>

\* the same in run_server
ServerRaises ==
    /\ ServerRuns
    /\ server.pc \notin {"hs_failed", "done"}
    /\ server' = ServerLeaves([server EXCEPT !.pc = "crashed"])
    /\ UNCHANGED <<client, chan, env, codecVars>>

NextRunners ==
    \/ NextOneSide
    \/ Signal
    \/ ClientRaises
    \/ ServerRaises

SpecRunners == InitServerPeer /\ [][NextRunners]_vars

\* the exit code the outcome calls for
C19_Expected ==
    IF client.pc = "hs_failed" \/ ~client.result.success THEN 1
    ELSE IF client.result.stats.received = 0 THEN 2
    ELSE IF client.result.stats.crc_errors >= 1 THEN 3
    ELSE 0

\* C19: run_client's exit code is a function of the outcome: 1 when the
\* handshake fails or the session result has success false; otherwise 2 when
\* no message was received; otherwise 3 when at least one CRC error
\* occurred; otherwise 0.  So exit code 0 means success, received > 0 and
\* crc_ok = received, and a session of msg_count 0 with a clean teardown
\* exits with 2.
C19_ExitCode ==
    /\ client.pc \in {"hs_failed", "done"} => client.exit = <<C19_Expected>>
    /\ client.pc = "hs_failed" => ~client.result.returned
    /\ client.pc = "done" => client.result.returned
    /\ client.pc \notin {"hs_failed", "done"} => client.exit = <<>>
    /\ client.exit = <<0>> =>
           /\ client.result.success
           /\ client.result.stats.received > 0
           /\ client.result.stats.crc_ok = client.result.stats.received
    /\ client.pc = "done" /\ client.msg_count = 0 /\ client.result.success
           /\ client.result.fin_ack_received
           => client.exit = <<2>>

\* a session of two rounds, one answer with a CRC mismatch, exits with 3
C19_Witness ==
    /\ client.exit = <<CRC_ERRORS>>
    /\ client.result.success
    /\ client.result.fin_ack_received
    /\ client.result.stats.received = 2
    /\ client.result.stats.crc_errors = 1
    /\ client.result.stats.crc_ok = 1

\* C20: once run_client or run_server has opened the port, the port is
\* closed on every way out: normal return, handshake failure, session
\* failure, an exception that escapes the handshake or the exchange, and a
\* shutdown signal; the port is open exactly while the runner is inside its
\* try block, and no runner has left with the port still open.
C20_PortClosed ==
    /\ client.port = "open" <=> ClientRuns
    /\ server.port = "open" <=> ServerRuns
    /\ client.pc \in {"hs_failed", "done", "crashed"} => client.port = "closed"
    /\ server.pc \in {"stopped", "crashed"} => server.port = "closed"
    /\ server.pc = "stopped" => ~server.running /\ server.exit = <<SUCCESS>>
    /\ server.exit # <<>> => server.pc = "stopped"
    /\ client.exit # <<>> => client.port = "closed"

\* the server was stopped by a signal after a session that failed
C20_Witness ==
    /\ server.pc = "stopped"
    /\ server.port = "closed"
    /\ ~server.running
    /\ server.result.returned
    /\ ~server.result.success

\* ---- C21: the reports of the two runners ----
\* the client's half: run_client prints a peering report after every
\* concluded handshake attempt and a session report after every result of
\* client_exchange
C21_ClientPrints ==
    /\ client.pc \in {"hs_failed", "xchg_top", "xchg_recv", "fin_top",
                      "fin_read", "done"} => "peering" \in client.reports
    /\ client.pc = "done" => "session" \in client.reports

\* the server's half as the code has it: a handshake that succeeded with no
\* signal is followed by the peering report, a failed attempt by none, a
\* session result by the session report unless a signal arrived first
C21_ServerPrints ==
    /\ server.pc \in {"xchg_top", "xchg_recv", "finwait_top", "finwait_read"}
         => server.reports = {"peering"}
    /\ server.pc \in {"listen_top", "listen_read", "synack_top",
                      "synack_read", "hs_failed"} => server.reports = {}
    /\ server.pc = "done" => "peering" \in server.reports

C21_ServerReturns ==
    [][/\ (server.pc # "done" /\ server'.pc = "done")
            => ("session" \in server'.reports <=> server.running)
       /\ (server.pc \in {"hs_failed", "done", "synack_read"}
             /\ server'.pc = "stopped")
            => server'.reports = server.reports]_vars

\* C21 (amended): the client prints the peering report after every concluded
\* handshake attempt and the session report after every result of
\* client_exchange; the server prints the peering report only after a
\* handshake that succeeded with no signal received, no report after a
\* failed attempt, and the session report only when no signal arrived
\* before the result was examined.
C21_Reports ==
    []C21_ClientPrints /\ []C21_ServerPrints /\ C21_ServerReturns

\* a session of the server ended under a signal: its peering report was
\* printed, its session report never will be
C21_Witness ==
    /\ server.pc = "stopped"
    /\ server.result # NoResult
    /\ server.reports = {"peering"}

\* C21 as stated: every concluded handshake attempt is followed by a peering
\* report and every session result by a session report, on both sides
C21_AlwaysPrinted ==
    /\ server.pc = "hs_failed" => "peering" \in server.reports
    /\ server.pc = "done" => "session" \in server.reports
    /\ client.pc = "hs_failed" => "peering" \in client.reports
    /\ client.pc = "done" => "session" \in client.reports

\* ---- C22: the serve loop ----
\* C22: as long as no signal was received the server stays in its loop:
\* after any session run_server starts a new server_handshake, and nothing
\* but a signal ends the loop.
C22_ServesUntilSignal ==
    [][(ServerRuns /\ server.running)
         => /\ server'.pc \notin {"crashed", "stopped"}
            /\ (server.pc = "done" /\ server'.pc # "done")
                 => server'.pc = "listen_top"]_vars


\* ---- C23: the counters of a session ----
\* the three relations between the counters of one _SessionStats, for a
\* session of msg_count rounds
C23_Counters(stats, msg_count) ==
    /\ stats.crc_ok + stats.crc_errors <= stats.received
    /\ stats.sent <= msg_count + 1
    /\ Len(stats.rtt_samples) <= stats.crc_ok

\* C23: in every state of client_exchange and server_exchange and in every
\* SessionResult they return (the server's taken when server_exchange
\* returns it, before the next handshake sets another msg_count),
\* crc_ok + crc_errors <= received, sent <= msg_count + 1 and
\* len(rtt_samples) <= crc_ok.
C23_CounterInvariants ==
    /\ C23_Counters(client.stats, client.msg_count)
    /\ C23_Counters(client.result.stats, client.msg_count)
    /\ C23_Counters(server.stats, server.msg_count)
    /\ server.pc = "done" => C23_Counters(server.result.stats, server.msg_count)

\* client_exchange returned after a full session in which one response came
\* with a CRC mismatch: two received, one RTT sample
C23_Witness ==
    /\ client.result.returned
    /\ client.result.stats.sent = client.msg_count
    /\ client.result.stats.received = 2
    /\ client.result.stats.crc_errors = 1
    /\ Len(client.result.stats.rtt_samples) = 1

(***************************************************************************)
(* The two handshakes alone, each against a peer that writes any frame:    *)
(* client_handshake up to its return, server_handshake up to its return.   *)
(***************************************************************************)
MaxPeeringFrames == 3

\* what reaches a client in its SYN loop
ToClientPeering ==
    { encode_control(SYN_ACK, PeerId),
      encode_control(SYN_ACK, ForeignId),
      Damage(encode_control(SYN_ACK, PeerId)),
      encode_control(SYN, PeerId),
      encode_control(FIN_ACK, PeerId),
      PeerData,
      EmptyFrame,
      TruncatedHeader }

\* what reaches a listening server
ToServerPeering ==
    { encode_control(SYN, PeerId),
      encode_control(SYN, ForeignId),
      Damage(encode_control(SYN, PeerId)),
      encode_control(SYN_ACK, PeerId),
      encode_ack_with_params(PeerId, 1),
      PeerData,
      encode_control(FIN, PeerId),
      EmptyFrame,
      TruncatedHeader }

ClientPeeringStep ==
    \/ \E o \in Outcomes : ClientSynTop(o)
    \/ \E o \in Outcomes : ClientSynRecv(o)

NextPeering ==
    \/ server.pc = "idle" /\ \E n \in 0..MaxMsgCount : ClientStart(PeerId, n)
    \/ ClientPeeringStep
    \/ client.pc = "idle" /\ ServerStart
    \/ HandshakeStep
    \/ Tick
    \/ \E frame \in ToClientPeering :
           client.pc \in ClientHandshakePcs /\ PeerAnswers(frame, MaxPeeringFrames)
    \/ \E frame \in ToServerPeering :
           server.pc \in ServerHandshakePcs /\ PeerSends(frame, MaxPeeringFrames)

SpecPeering == InitServerPeer /\ [][NextPeering]_vars

\* ---- C25: the client's SYN loop ----
\* the client's input begins with SYN-ACK of its own conn_id, CRC intact
C25_GoodSynAck == HeadIs(chan.s2c, encode_control(SYN_ACK, client.conn_id))

\* C25: the read of the SYN loop leaves SynSent, writing the ACK, exactly on
\* a SYN-ACK with the client's conn_id and a good CRC; any other frame or a
\* decode failure leaves the client in its loop with nothing written, and
\* the client leaves SynSent for the session in no other step.
C25_OnlyGoodSynAck ==
    [][/\ (client.pc = "syn_read" /\ chan.s2c # <<>> /\ client' # client)
            => IF C25_GoodSynAck
               THEN /\ client'.pc = "xchg_top"
                    /\ chan'.c2s = chan.c2s \o
                         encode_ack_with_params(client.conn_id, client.msg_count)
               ELSE /\ client' = [client EXCEPT !.pc = "syn_top"]
                    /\ chan'.c2s = chan.c2s
       /\ (client.pc # "xchg_top" /\ client'.pc = "xchg_top")
            => client.pc = "syn_read" /\ C25_GoodSynAck]_vars

\* the handshake has returned on the third frame the client read
C25_Witness ==
    /\ client.pc = "xchg_top"
    /\ env.noise = MaxPeeringFrames
    /\ chan.s2c = <<>>

\* ---- C26: the server's Listen ----
\* the server's input begins with a SYN of conn_id id, CRC intact
C26_GoodSyn(id) == HeadIs(chan.c2s, encode_control(SYN, id))

\* C26: in Listen the server has no conn_id and writes nothing; its read
\* adopts the conn_id of a SYN with a good CRC and goes on to SYN-ACK, and on
\* any other frame, a damaged SYN or a decode failure stays in Listen.
C26_ListenAdopts ==
    /\ [](server.pc \in {"listen_top", "listen_read"} => server.conn_id = <<>>)
    /\ [][/\ server.pc \in {"listen_top", "listen_read"}
               => chan'.s2c = chan.s2c
          /\ (server.pc = "listen_read" /\ chan.c2s # <<>> /\ server' # server)
               => IF \E id \in {PeerId, ForeignId} : C26_GoodSyn(id)
                  THEN /\ server'.pc = "synack_top"
                       /\ C26_GoodSyn(server'.conn_id)
                  ELSE server' = [server EXCEPT !.pc = "listen_top"]
          /\ (server.pc \in {"listen_top", "listen_read"}
                /\ server'.pc = "synack_top")
               => server.pc = "listen_read" /\ C26_GoodSyn(server'.conn_id)]_vars

\* the server adopted the foreign conn_id from the third frame it read
C26_Witness ==
    /\ server.pc = "synack_top"
    /\ server.conn_id = ForeignId
    /\ env.noise = MaxPeeringFrames
    /\ chan.c2s = <<>>

\* ---- C27: the client's shutdown after the exchange loop ----
\* the client's read of a round finds FIN of its connection
C27_EarlyFin ==
    /\ client.pc = "xchg_recv"
    /\ HeadIs(chan.s2c, encode_control(FIN, client.conn_id))

\* C27 (amended): after completing all rounds the client invokes
\* client_shutdown, so a FIN was sent before a successful result is
\* returned; on an early FIN of the peer client_exchange returns at once
\* with the early-FIN error: no FIN is sent and no FIN-ACK awaited.
C27_ShutdownAfterRounds ==
    /\ [](client.result.returned /\ client.result.success => env.fins >= 1)
    /\ [](client.result.returned /\ client.result.error = "server_fin"
            => env.fins = 0 /\ ~client.result.fin_ack_received)
    /\ [][/\ (client.pc = "xchg_top" /\ client.i = client.msg_count
                /\ client' # client)
               => client'.pc = "fin_top"
          /\ (C27_EarlyFin /\ client' # client)
               => /\ client'.pc = "done"
                  /\ ~client'.result.success
                  /\ client'.result.error = "server_fin"
                  /\ client'.result.stats = client.stats
                  /\ chan'.c2s = chan.c2s]_vars

\* client_exchange returned on a FIN read in its second round; no FIN was
\* ever sent
C27_Witness ==
    /\ client.result.returned
    /\ client.result.error = "server_fin"
    /\ client.result.stats.received = 1
    /\ env.fins = 0

\* C27 as stated: the loop ended by completion or by an early FIN is
\* followed by client_shutdown
C27_ShutdownAlways ==
    [][((client.pc = "xchg_top" /\ client.i = client.msg_count
            /\ client' # client)
          \/ (C27_EarlyFin /\ client' # client))
         => client'.pc = "fin_top"]_vars

(***************************************************************************)
(* The server against a peer that completes a short session and then       *)
(* writes any frame into the FIN-wait.                                     *)
(***************************************************************************)
MaxFinWaitFrames == 5

ToFinWait ==
    { encode_control(SYN, PeerId),
      encode_ack_with_params(PeerId, 0),
      encode_ack_with_params(PeerId, 1),
      PeerData,
      encode_control(FIN, PeerId),
      encode_control(FIN, ForeignId),
      Damage(encode_control(FIN, PeerId)),
      EmptyFrame,
      TruncatedHeader }

NextFinWait ==
    \/ ServerStart
    \/ ServerStep
    \/ Tick
    \/ \E frame \in ToFinWait : PeerSends(frame, MaxFinWaitFrames)

SpecFinWait == InitServerPeer /\ [][NextFinWait]_vars

\* ---- C28: wait_for_fin ----
\* the server's input begins with FIN of its connection, CRC intact
C28_GoodFin == HeadIs(chan.c2s, encode_control(FIN, server.conn_id))

\* C28: a read of the FIN-wait ends the wait with fin_received true, one
\* FIN-ACK written, exactly on a FIN with the server's conn_id and a good
\* CRC; DATA, a foreign or damaged FIN and decode failures leave the server
\* waiting with every counter unchanged; the wait ends with fin_received
\* false only by its timeout.
C28_WaitForFin ==
    [][/\ (server.pc = "finwait_read" /\ chan.c2s # <<>> /\ server' # server)
            => IF C28_GoodFin
               THEN /\ server'.pc = "done"
                    /\ server'.result.success
                    /\ server'.result.fin_received
                    /\ server'.result.stats = server.stats
                    /\ chan'.s2c = chan.s2c \o
                                     encode_control(FIN_ACK, server.conn_id)
               ELSE /\ server' = [server EXCEPT !.pc = "finwait_top"]
                    /\ chan'.s2c = chan.s2c
       /\ (server.pc \in {"finwait_top", "finwait_read"}
             /\ server'.pc = "done")
            => /\ server'.result.fin_received
                    <=> (server.pc = "finwait_read" /\ C28_GoodFin)
               /\ ~server'.result.fin_received
                    => /\ server.pc = "finwait_top"
                       /\ ~(server.elapsed < FinWaitTimeout)
                       /\ chan'.s2c = chan.s2c]_vars

\* the wait of a session without rounds ended on a FIN, the last of the
\* frames the peer wrote
C28_Witness ==
    /\ server.pc = "done"
    /\ server.msg_count = 0
    /\ server.result.fin_received
    /\ env.noise = MaxFinWaitFrames
    /\ chan.c2s = <<>>

\* ---- C29, C30: a frame of the session that is neither DATA nor FIN ----
\* buf begins with an intact SYN, SYN-ACK, ACK or FIN-ACK of connection id
C29_Unexpected(buf, id) ==
    \/ \E t \in {SYN, SYN_ACK, ACK, FIN_ACK} : HeadIs(buf, encode_control(t, id))
    \/ \E n \in 0..MaxMsgCount : HeadIs(buf, encode_ack_with_params(id, n))

\* C29: such a frame read by client_exchange or server_exchange aborts the
\* session with an error: the exchange returns a SessionResult with success
\* false and an error set, and no exception reaches the caller.
C29_AbortsWithResult ==
    [][/\ (client.pc = "xchg_recv" /\ C29_Unexpected(chan.s2c, client.conn_id)
             /\ client' # client)
            => /\ client'.pc = "done"
               /\ client'.result.returned /\ ~client'.result.success
               /\ client'.result.error # "none"
       /\ (server.pc = "xchg_recv" /\ C29_Unexpected(chan.c2s, server.conn_id)
             /\ server' # server)
            => /\ server'.pc = "done"
               /\ server'.result.returned /\ ~server'.result.success
               /\ server'.result.error # "none"]_vars

\* C30: while the client waits for the response of a round, such a frame is
\* skipped silently: the round and the session go on, no counter changes.
C30_SkippedSilently ==
    [][(client.pc = "xchg_recv" /\ C29_Unexpected(chan.s2c, client.conn_id)
          /\ client' # client)
         => /\ client'.pc \in {"xchg_top", "xchg_recv"}
            /\ client'.i = client.i
            /\ client'.stats = client.stats
            /\ client'.result = client.result]_vars

\* ---- C31: retransmission of control frames ----
\* the step appends frame to the line towards the server / the client
C31_ClientWrote(frame) == chan'.c2s = chan.c2s \o frame

C31_ServerWrote(frame) == chan'.s2c = chan.s2c \o frame

\* C31: a SYN is written only in the SYN loop before ClientTimeout, so never
\* after a SYN-ACK was accepted; a FIN only in client_shutdown's loop before
\* FinWaitTimeout, never after a FIN-ACK was accepted; a SYN-ACK only in the
\* server's SYN-ACK loop before AckTimeout, never after an ACK was accepted.
C31_WhileUnacknowledged ==
    [][/\ (~ClientQuiet /\ C31_ClientWrote(encode_control(SYN, client.conn_id)))
            => /\ client.pc = "syn_top"
               /\ client.elapsed < ClientTimeout
               /\ client.since > SynInterval
       /\ (~ClientQuiet /\ C31_ClientWrote(encode_control(FIN, client.conn_id)))
            => /\ client.pc = "fin_top"
               /\ client.elapsed < FinWaitTimeout
               /\ client.since > FinInterval
               /\ ~client.result.returned
       /\ (ServerRuns /\ server.conn_id # <<>>
             /\ C31_ServerWrote(encode_control(SYN_ACK, server.conn_id)))
            => /\ server.pc = "synack_top"
               /\ server.elapsed < AckTimeout
               /\ server.since > SynInterval]_vars

\* a FIN was retransmitted, and the FIN-ACK then accepted ended the shutdown
C31_Witness ==
    /\ client.pc = "done"
    /\ client.result.fin_ack_received
    /\ env.fins = 2

(***************************************************************************)
(* Either runner against a peer, under every configured log interval.      *)
(***************************************************************************)
\* values of SERIAL_LOG_INTERVAL: none, every round, the last round of the
\* longest session, the default
LogIntervals == {0, 1, MaxMsgCount, LOG_PROGRESS_INTERVAL}

InitLogInterval ==
    /\ InitProto
    /\ chan = EmptyChan
    /\ env \in {[QuietEnv EXCEPT !.log_interval = v] : v \in LogIntervals}

SpecLogInterval == InitLogInterval /\ [][NextOneSide]_vars

\* ---- C32: the progress-logging interval ----
\* recv_data on buf returns a DATA frame of connection id
C32_DataRead(buf, id) ==
    LET r == recv_data(buf, id)
    IN  r.err = "none" /\ r.msg_type = DATA

\* C32: the interval has no behavioural effect: under every configured
\* value the step that handles a DATA frame is the one the default value
\* gives: the round is counted and the exchange goes on to the next.
C32_NoBehaviouralEffect ==
    [][/\ (client.pc = "xchg_recv" /\ chan.s2c # <<>> /\ client' # client
             /\ C32_DataRead(chan.s2c, client.conn_id))
            => /\ client'.pc = "xchg_top"
               /\ client'.i = client.i + 1
       /\ (server.pc = "xchg_recv" /\ chan.c2s # <<>> /\ server' # server
             /\ C32_DataRead(chan.c2s, server.conn_id))
            => /\ server'.pc = "xchg_top"
               /\ server'.i = server.i + 1]_vars

\* ---- C33: byte accounting ----
\* the data tail of the DATA frame at the head of buf
C33_DataOf(buf) == decode_message(buf, 0).data

\* the bytes the step appended to the line
C33_Written(before, after) == Rest(after, Len(before))

\* sent and bytes_sent move by one DATA frame whose data, of length L, the
\* step wrote, bytes_sent by L + extra
C33_Sent(stats, after, written, extra) ==
    after.sent # stats.sent
      => /\ after.sent = stats.sent + 1
         /\ decode_message(written, 0).msg_type = DATA
         /\ after.bytes_sent =
              stats.bytes_sent + Len(C33_DataOf(written)) + extra

\* received and bytes_received move by the DATA frame at the head of buf
C33_Received(stats, after, buf) ==
    after.received # stats.received
      => /\ after.received = stats.received + 1
         /\ after.bytes_received = stats.bytes_received + Len(C33_DataOf(buf))

C33_Accounting(extra) ==
    /\ client'.pc # "idle" /\ client.pc # "idle"
         => /\ C33_Sent(client.stats, client'.stats,
                        C33_Written(chan.c2s, chan'.c2s), extra)
            /\ C33_Received(client.stats, client'.stats, chan.s2c)
    /\ server.pc \in {"xchg_top", "xchg_recv"}
         => /\ C33_Sent(server.stats, server'.stats,
                        C33_Written(chan.s2c, chan'.s2c), extra)
            /\ C33_Received(server.stats, server'.stats, chan.c2s)

\* C33 (amended): each DATA frame sent with data of length L increases sent
\* by 1 and bytes_sent by the length of the whole frame, L + 17 (type byte,
\* conn_id and the 12 bytes of sync, length and CRC); each DATA frame
\* received increases received by 1 and bytes_received by the length of its
\* data tail.
C33_FrameBytes ==
    [][C33_Accounting(1 + CONN_ID_SIZE + 3 * UINT32_SIZE)]_vars

\* the client has sent a payload of each length and received one echo
C33_Witness ==
    /\ client.stats.sent = 2
    /\ client.stats.bytes_sent =
         2 * MIN_PAYLOAD_SIZE + 1 + 2 * (1 + CONN_ID_SIZE + 3 * UINT32_SIZE)
    /\ client.stats.bytes_received = MIN_PAYLOAD_SIZE

\* C33 as stated: bytes_sent grows by L + 12
C33_PayloadPlusTwelve == [][C33_Accounting(3 * UINT32_SIZE)]_vars

\* ---- C34: the server's FIN-ACK ----
\* C34: every FIN-ACK the server writes is the single FIN-ACK(conn_id) of a
\* step that read a FIN frame with the session's conn_id and ended the
\* session; the step in which FIN-wait times out writes nothing.
C34_FinAckOnce ==
    [][LET written == Rest(chan'.s2c, Len(chan.s2c))
           m == decode_message(chan.c2s, 0)
       IN  /\ (written # <<>> /\ decode_message(written, 0).msg_type = FIN_ACK)
                => /\ written = encode_control(FIN_ACK, server.conn_id)
                   /\ server.pc \in {"xchg_recv", "finwait_read"}
                   /\ chan.c2s # <<>>
                   /\ m.err = "none" /\ m.msg_type = FIN
                   /\ m.conn_id = server.conn_id
                   /\ server'.pc = "done"
                   /\ server'.result.fin_received
           /\ (server.pc = "finwait_top" /\ server'.pc = "done")
                => /\ chan'.s2c = chan.s2c
                   /\ ~server'.result.fin_received]_vars

\* a session ended by an early FIN, answered by the one FIN-ACK written so far
C34_Witness ==
    /\ server.pc = "done"
    /\ server.result.error = "client_fin"
    /\ server.result.fin_received
    /\ env.fin_acks = 1
    /\ chan.s2c # <<>>

\* ---- C35: stop-and-wait ----
\* client_exchange runs against the server_exchange of its connection
C35_SameSession ==
    /\ client.pc \in {"xchg_top", "xchg_recv"}
    /\ server.pc \in {"xchg_top", "xchg_recv", "finwait_top", "finwait_read",
                      "done"}
    /\ server.conn_id = client.conn_id

\* C35: while client_exchange runs against server_exchange over a line that
\* may lose or damage frames, 0 <= client.sent - server.received <= 1 and
\* 0 <= server.sent - client.received <= 1.
C35_Lockstep ==
    C35_SameSession
      => /\ server.stats.received <= client.stats.sent
         /\ client.stats.sent <= server.stats.received + 1
         /\ client.stats.received <= server.stats.sent
         /\ server.stats.sent <= client.stats.received + 1

\* the second DATA frame is outstanding after a damaged echo
C35_Witness ==
    /\ C35_SameSession
    /\ client.pc = "xchg_recv"
    /\ client.stats.sent = 2 /\ server.stats.received = 1
    /\ client.stats.crc_errors = 1

\* ---- C36: the frames each role writes ----
\* the type of the frame a step appended to a line, none if it appended
\* nothing
C36_TypeWritten(before, after) ==
    IF Len(after) > Len(before)
    THEN {decode_message(Rest(after, Len(before)), 0).msg_type}
    ELSE {}

\* C36: the server writes only SYN-ACK, DATA and FIN-ACK frames, the client
\* only SYN, ACK, DATA and FIN frames; no client_exchange against the server
\* ends with the early-FIN error.
C36_RoleDiscipline ==
    /\ [](client.result.error # "server_fin")
    /\ [][/\ C36_TypeWritten(chan.c2s, chan'.c2s) \subseteq {SYN, ACK, DATA, FIN}
          /\ C36_TypeWritten(chan.s2c, chan'.s2c)
               \subseteq {SYN_ACK, DATA, FIN_ACK}]_vars

\* a whole session took place: every type of frame was written and read
C36_Witness ==
    /\ client.result.returned
    /\ client.result.fin_ack_received
    /\ client.result.stats.received = 2
    /\ server.result.fin_received

\* ---- C37: both exchanges return ----
\* a line that may lose frames or damage them; both processes keep running
\* and time keeps passing
NextLossy ==
    \/ ClientStart(<<1, 2, 3, 4>>, MaxMsgCount)
    \/ ServerStart
    \/ ClientStep
    \/ ServerStep
    \/ Tick

SpecLossy ==
    /\ Init
    /\ [][NextLossy]_vars
    /\ WF_vars(ClientStep)
    /\ WF_vars(ServerStep)
    /\ WF_vars(Tick)

C37_InClientExchange ==
    client.pc \in {"xchg_top", "xchg_recv", "fin_top", "fin_read"}

C37_InServerExchange ==
    server.pc \in {"xchg_top", "xchg_recv", "finwait_top", "finwait_read"}

C38_DamagedControl(buf) ==
    LET m == decode_message(buf, 0)
    IN  m.err = "none" /\ ~m.crc_ok /\ m.msg_type # DATA

C38_Phase(pc) ==
    CASE pc \in {"syn_top", "syn_read"} -> "handshake"
      [] pc \in {"listen_top", "listen_read"} -> "listen"
      [] pc \in {"synack_top", "synack_read"} -> "synack"
      [] pc \in {"xchg_top", "xchg_recv"} -> "exchange"
      [] pc \in {"fin_top", "fin_read"} -> "shutdown"
      [] pc \in {"finwait_top", "finwait_read"} -> "finwait"
      [] OTHER -> pc

\* C38: a control frame with a CRC mismatch causes no transition in any
\* phase: the process that reads it stays in its phase and writes nothing;
\* in particular a damaged FIN read in the exchange loop neither ends the
\* exchange nor is answered with FIN-ACK.
C38_DamagedControlIgnored ==
    [][/\ (/\ client.pc \in {"syn_read", "xchg_recv", "fin_read"}
           /\ C38_DamagedControl(chan.s2c) /\ client' # client)
            => /\ C38_Phase(client'.pc) = C38_Phase(client.pc)
               /\ chan'.c2s = chan.c2s
       /\ (/\ server.pc \in {"listen_read", "synack_read", "xchg_recv",
                              "finwait_read"}
           /\ C38_DamagedControl(chan.c2s) /\ server' # server)
            => /\ C38_Phase(server'.pc) = C38_Phase(server.pc)
               /\ chan'.s2c = chan.s2c]_vars

(***************************************************************************)
(* A frame that arrives in pieces.  rbuf holds the bytes that have reached *)
(* the reader, rpos the reader's position; a decode call reads what has    *)
(* arrived and nothing arrives before its reads time out.                  *)
(***************************************************************************)
ChunkCases ==
    { [prefix |-> <<>>, src |-> s, flip |-> NoFlip] :
        s \in { [via |-> "control", msg_type |-> SYN, conn_id |-> <<1, 2, 3, 4>>,
                 data |-> <<>>],
                [via |-> "data", msg_type |-> DATA, conn_id |-> <<1, 2, 3, 4>>,
                 data |-> HELLO] } }

ChunkFrame == EncodeSource(tcase.src)

\* where the arrival of the frame may pause: inside and after the sync
\* magic, inside and after the length, inside the payload, inside the CRC,
\* at the end
ChunkEnds ==
    { 2, UINT32_SIZE, UINT32_SIZE + 2, 2 * UINT32_SIZE, 2 * UINT32_SIZE + 2,
      Len(ChunkFrame) - 2, Len(ChunkFrame) }

\* the bytes of the frame up to byte n reach the reader
Arrive(n) ==
    /\ Len(rbuf) < n
    /\ rbuf' = SubSeq(ChunkFrame, 1, n)
    /\ UNCHANGED <<rpos, tcase, rets>>
    /\ UNCHANGED protoVars

InitChunks ==
    /\ tcase \in ChunkCases
    /\ rbuf = <<>>
    /\ rpos = 0
    /\ rets = <<>>
    /\ client = IdleClient
    /\ server = IdleServer
    /\ chan = EmptyChan
    /\ env = QuietEnv

NextChunks ==
    \/ \E n \in ChunkEnds : Arrive(n)
    \/ DecodeCall
    \/ DecodeMessageCall

SpecChunks == InitChunks /\ [][NextChunks]_vars

\* ---- C39: short reads ----
\* the call recorded as ret returned the frame
C39_IsFrame(ret) ==
    /\ ret.err = "none"
    /\ ret.crc_ok
    /\ IF ret.fn = "decode"
       THEN ret.payload = FramePayload(tcase.src)
       ELSE /\ ret.msg_type = tcase.src.msg_type
            /\ ret.conn_id = tcase.src.conn_id
            /\ ret.data = tcase.src.data

C39_Returned(rs) == \E i \in 1..Len(rs) : C39_IsFrame(rs[i])

\* the step is a decode or decode_message call
C39_Call == rets' # rets

\* C39 as amended: a call returns the frame exactly when it starts with the
\* whole frame unread in the input, however the frame arrived; a call that
\* starts on nothing consumes nothing; a call that starts when part of the
\* frame has arrived fails and consumes that part, and from then on no
\* retry returns the frame.
C39_WholeFrameOnly ==
    [][C39_Call =>
         /\ (rpos = 0 /\ Len(rbuf) = Len(ChunkFrame))
              => /\ C39_IsFrame(rets'[Len(rets')])
                 /\ rpos' = Len(ChunkFrame)
         /\ (rpos = 0 /\ Len(rbuf) < Len(ChunkFrame))
              => /\ rets'[Len(rets')].err # "none"
                 /\ rpos' = Len(rbuf)
         /\ (rpos > 0 /\ ~C39_Returned(rets))
              => /\ rets'[Len(rets')].err # "none"
                 /\ rpos' = Len(rbuf)]_vars

\* the first call read a part of the frame, the retry was made with the
\* rest of the frame in the input, and failed
C39_Witness ==
    /\ Len(rbuf) = Len(ChunkFrame)
    /\ rpos = Len(rbuf)
    /\ Len(rets) = 2
    /\ rets[1].from = 0 /\ rets[1].err # "none"
    /\ rets[2].from > 0 /\ rets[2].err # "none"

\* C39: decoding does not depend on how the frame arrived: a call made once
\* the whole frame has arrived returns the frame, whatever the calls before
\* it read.
C39_RetryReturnsFrame ==
    [][(C39_Call /\ Len(rbuf) = Len(ChunkFrame) /\ ~C39_Returned(rets))
         => C39_Returned(rets')]_vars

\* ---- C40: success means all rounds ----
\* a result of a session of msg_count rounds, given its counters
C40_Consistent(result, msg_count) ==
    /\ result.success => /\ result.stats.received = msg_count
                         /\ result.stats.sent = msg_count
    /\ result.stats.received < msg_count => /\ ~result.success
                                            /\ result.error # "none"

\* C40: a SessionResult with success true has received = sent = msg_count,
\* on the client and on the server; a result with fewer rounds has success
\* false and an error.
C40_SuccessMeansAllRounds ==
    /\ (client.pc = "done" /\ client.result.returned)
         => C40_Consistent(client.result, client.msg_count)
    /\ (server.pc = "done" /\ server.result.returned)
         => C40_Consistent(server.result, server.msg_count)

\* the server returned success after all its rounds, one of them with a CRC
\* mismatch
C40_Witness ==
    /\ server.pc = "done"
    /\ server.result.success
    /\ server.msg_count = MaxMsgCount
    /\ server.result.stats.received = MaxMsgCount
    /\ server.result.stats.crc_errors >= 1

(***************************************************************************)
(* Properties of the codec (checked under SpecCodec)                       *)
(***************************************************************************)
FirstCallIs(fn) == Len(rets) >= 1 /\ rets[1].fn = fn

IsMessageSource == tcase.src.via \in {"control", "data"}

\* C7: round trip.  For every message type, conn_id and data payload p with
\* |p| <= MAX_MESSAGE_LENGTH - 5, decode_message on the bytes encode_control /
\* encode_data produced returns (that type, conn_id, p, crc_ok = TRUE); the
\* payload that makes the frame's declared length exactly MAX_MESSAGE_LENGTH
\* is accepted.
C7_RoundTrip ==
    ( /\ tcase.prefix = <<>>
      /\ tcase.flip = NoFlip
      /\ IsMessageSource
      /\ Len(tcase.src.data) <= MAX_MESSAGE_LENGTH - 5
      /\ FirstCallIs("decode_message") )
    => /\ rets[1].err = "none"
       /\ rets[1].msg_type = tcase.src.msg_type
       /\ rets[1].conn_id = tcase.src.conn_id
       /\ rets[1].data = tcase.src.data
       /\ rets[1].crc_ok = TRUE

\* the longest payload has been encoded, decoded and accepted
C7_Witness ==
    /\ tcase.prefix = <<>>
    /\ tcase.flip = NoFlip
    /\ tcase.src.via = "data"
    /\ Len(tcase.src.data) = MAX_MESSAGE_LENGTH - 5
    /\ FirstCallIs("decode_message")
    /\ rets[1].err = "none"
    /\ rets[1].crc_ok
    /\ Len(rets[1].data) = MAX_MESSAGE_LENGTH - 5

\* C8: for a valid encoded frame with one of its 4 CRC bytes changed, decode
\* returns the unchanged payload with crc_ok = FALSE, and neither decode nor
\* decode_message reports a transport failure (payload None).
C8_CrcFlipKeepsPayload ==
    ( /\ tcase.prefix = <<>>
      /\ tcase.flip.idx # 0
      /\ Len(FramePayload(tcase.src)) <= MAX_MESSAGE_LENGTH
      /\ Len(rets) >= 1 )
    => /\ rets[1].crc_ok = FALSE
       /\ rets[1].fn = "decode" =>
             /\ rets[1].err = "none"
             /\ rets[1].payload = FramePayload(tcase.src)
       /\ rets[1].fn = "decode_message" =>
             /\ rets[1].err # "TransportError"
             /\ IsMessageSource => /\ rets[1].err = "none"
                                   /\ rets[1].data = tcase.src.data

\* the last CRC byte of the frame of "hello" was changed and decode returned
\* "hello" with crc_ok = FALSE
C8_Witness ==
    /\ tcase.prefix = <<>>
    /\ tcase.flip = [idx |-> 4, mask |-> 255]
    /\ tcase.src.via = "raw"
    /\ tcase.src.data = HELLO
    /\ FirstCallIs("decode")
    /\ rets[1].err = "none"
    /\ rets[1].payload = HELLO
    /\ rets[1].crc_ok = FALSE

\* C9 as claimed: for ANY sequence of up to MAX_RESYNC_BYTES - 4 bytes followed
\* by a valid frame, one decode call skips the sequence and returns the
\* frame's payload with crc_ok = TRUE.
C9_ResyncAnyPrefix ==
    ( /\ Len(tcase.prefix) <= MAX_RESYNC_BYTES - 4
      /\ tcase.flip = NoFlip
      /\ Len(FramePayload(tcase.src)) <= MAX_MESSAGE_LENGTH
      /\ FirstCallIs("decode") )
    => /\ rets[1].err = "none"
       /\ rets[1].payload = FramePayload(tcase.src)
       /\ rets[1].crc_ok = TRUE

\* C9 amended: the same for every sequence of up to MAX_RESYNC_BYTES - 4 bytes
\* in which the sync magic does not occur.
C9_ResyncMagicFreePrefix ==
    ( /\ Len(tcase.prefix) <= MAX_RESYNC_BYTES - 4
      /\ ~HasMagic(tcase.prefix)
      /\ tcase.flip = NoFlip
      /\ Len(FramePayload(tcase.src)) <= MAX_MESSAGE_LENGTH
      /\ FirstCallIs("decode") )
    => /\ rets[1].err = "none"
       /\ rets[1].payload = FramePayload(tcase.src)
       /\ rets[1].crc_ok = TRUE
       /\ rpos >= Len(tcase.prefix)

\* MAX_RESYNC_BYTES - 4 bytes were skipped by one decode call that returned
\* the frame behind them
C9_Witness ==
    /\ Len(tcase.prefix) = MAX_RESYNC_BYTES - 4
    /\ ~HasMagic(tcase.prefix)
    /\ FirstCallIs("decode")
    /\ rets[1].err = "none"
    /\ rets[1].payload = HELLO
    /\ rets[1].crc_ok

\* C10: when the sync magic is followed by a declared length greater than
\* MAX_MESSAGE_LENGTH, decode fails (payload None) after the 8 bytes of magic
\* and length, without reading a payload, and the next call on the same
\* reader, which then carries a valid frame, returns that frame.
C10_LengthCap ==
    ( /\ tcase.prefix \in OversizeHeaders
      /\ tcase.flip = NoFlip
      /\ Len(rets) >= 1 )
    => /\ rets[1].err \in {"None", "TransportError"}
       /\ Len(rets) = 1 => rpos = 8
       /\ Len(rets) >= 2 =>
             /\ rets[2].from = 8
             /\ rets[2].fn = "decode" =>
                   /\ rets[2].err = "none"
                   /\ rets[2].payload = FramePayload(tcase.src)
                   /\ rets[2].crc_ok = TRUE
             /\ (rets[2].fn = "decode_message" /\ IsMessageSource) =>
                   /\ rets[2].err = "none"
                   /\ rets[2].crc_ok = TRUE
                   /\ rets[2].msg_type = tcase.src.msg_type
                   /\ rets[2].conn_id = tcase.src.conn_id
                   /\ rets[2].data = tcase.src.data

\* a header declaring MAX_MESSAGE_LENGTH + 1 made the first call fail and the
\* second call returned the frame written after it
C10_Witness ==
    /\ tcase.prefix = SYNC_MAGIC_BYTES \o uint32_to_bytes(MAX_MESSAGE_LENGTH + 1)
    /\ tcase.src.via = "raw"
    /\ tcase.src.data = HELLO
    /\ Len(rets) = 2
    /\ rets[1].fn = "decode" /\ rets[1].err = "None"
    /\ rets[2].fn = "decode" /\ rets[2].err = "none"
    /\ rets[2].from = 8
    /\ rets[2].payload = HELLO
    /\ rets[2].crc_ok

\* the outcome of the first decode_message call that the bytes written to the
\* reader call for: the exception it raises, or "none" when it returns
C11_Expected ==
    LET p == FramePayload(tcase.src)
        framed == IF Len(p) > MAX_MESSAGE_LENGTH THEN "TransportError"
                  ELSE IF Len(p) < 5 THEN "EncodingError"
                  ELSE IF p[1] \notin {1, 2, 3, 16, 32, 33} THEN "EncodingError"
                  ELSE "none"
    IN  IF tcase.prefix = encode(<<>>) THEN "EncodingError"
        ELSE IF HasMagic(tcase.prefix) THEN "TransportError"
        ELSE IF Len(tcase.prefix) > MAX_RESYNC_BYTES THEN "TransportError"
        ELSE framed

\* C11: decode_message raises TransportError when message.decode yields no
\* payload (nothing left to read, a payload cut short, the sync magic not
\* found within the resync limit, a declared length over the cap),
\* EncodingError when the payload has fewer than 5 bytes or its first byte
\* is not one of the six types, and otherwise returns (type, conn_id, tail,
\* crc_ok), the tail empty for a payload of exactly 5 bytes.
C11_Classification ==
    /\ FirstCallIs("decode_message") =>
          /\ rets[1].err = C11_Expected
          /\ rets[1].err = "none" =>
                LET p == FramePayload(tcase.src)
                IN  /\ rets[1].msg_type = p[1]
                    /\ rets[1].conn_id = SubSeq(p, 2, 5)
                    /\ rets[1].data = SubSeq(p, 6, Len(p))
                    /\ Len(p) = 5 => rets[1].data = <<>>
                    /\ rets[1].crc_ok = (tcase.flip = NoFlip)
    /\ \A k \in 1..Len(rets) :
          (rets[k].fn = "decode_message" /\ rets[k].from = Len(rbuf))
              => rets[k].err = "TransportError"

\* a payload of 5 bytes with an unknown type byte was refused with
\* EncodingError, and the next call, with nothing left to read, raised
\* TransportError
C11_Witness ==
    /\ tcase.prefix = <<>>
    /\ tcase.src.via = "raw"
    /\ tcase.src.data = <<99, 1, 2, 3, 4>>
    /\ Len(rets) = 2
    /\ rets[1].fn = "decode_message" /\ rets[1].err = "EncodingError"
    /\ rets[2].fn = "decode_message" /\ rets[2].err = "TransportError"
    /\ rets[2].from = Len(rbuf)


(***************************************************************************)
(* Latency statistics.  compute_latency_stats is a pure function of the    *)
(* list of RTT samples; its specification draws the list in tcase and      *)
(* keeps what the call returned in rets.  Samples are whole numbers of a   *)
(* time unit; avg_ms, a quotient of floats, is left out.                   *)
(***************************************************************************)
MaxRtt == 3

MaxShort == 3

MaxRun == 25

MaxOutliers == 2

Rtts == 1..MaxRtt

Run(x, n) == [i \in 1..n |-> x]

\* every short list, and the lists of test_percentiles_with_outlier: a run
\* of one value and a few samples of another, before or after it
SampleLists ==
    UNION {[1..n -> Rtts] : n \in 0..MaxShort}
      \cup {Run(a, i) \o Run(b, j) : a \in Rtts, b \in Rtts,
                                       i \in 0..MaxRun, j \in 0..MaxOutliers}
      \cup {Run(b, j) \o Run(a, i) : a \in Rtts, b \in Rtts,
                                       i \in 0..MaxRun, j \in 0..MaxOutliers}

\* sorted(...): ascending order
RECURSIVE sorted(_)
sorted(s) ==
    IF s = <<>> THEN <<>>
    ELSE LET x == Head(s)
             rest == sorted(Tail(s))
         IN  SelectSeq(rest, LAMBDA y : y < x) \o <<x>>
               \o SelectSeq(rest, LAMBDA y : y >= x)

\* idx = int(p / 100 * (len(sorted_data) - 1)); indices from 1 here
percentile_RoundUp(sorted_data, p) ==
    sorted_data[(p * (Len(sorted_data) - 1) + 99) \div 100 + 1]

percentile(sorted_data, p) ==
    sorted_data[(p * (Len(sorted_data) - 1)) \div 100 + 1]

\* <<>> for None, otherwise the LatencyStats in a one-element sequence
compute_latency_stats(rtt_samples) ==
    IF rtt_samples = <<>> THEN <<>>
    ELSE LET samples_ms == sorted([i \in DOMAIN rtt_samples |->
                                       rtt_samples[i] * 1000])
         IN  <<[count |-> Len(rtt_samples),
                min_ms |-> samples_ms[1],
                max_ms |-> samples_ms[Len(samples_ms)],
                p50_ms |-> percentile(samples_ms, 50),
                p95_ms |-> percentile(samples_ms, 95),
                p99_ms |-> percentile(samples_ms, 99)]>>

InitLatency ==
    /\ tcase \in {[rtt_samples |-> s] : s \in SampleLists}
    /\ rbuf = <<>>
    /\ rpos = 0
    /\ rets = <<>>
    /\ client = IdleClient
    /\ server = IdleServer
    /\ chan = EmptyChan
    /\ env = QuietEnv

\* SessionResult.latency_stats(): one call on the samples
LatencyCall ==
    /\ rets = <<>>
    /\ rets' = <<compute_latency_stats(tcase.rtt_samples)>>
    /\ UNCHANGED <<rbuf, rpos, tcase, protoVars>>

NextLatency == LatencyCall

SpecLatency == InitLatency /\ [][NextLatency]_vars

\* ---- C24: percentiles ----
\* v is the element at index k (from 0) of the ascending order of s: fewer
\* than k + 1 elements lie below it, more than k are not above it
C24_AtRank(s, v, k) ==
    /\ \E i \in DOMAIN s : s[i] = v
    /\ Cardinality({i \in DOMAIN s : s[i] < v}) <= k
    /\ Cardinality({i \in DOMAIN s : s[i] <= v}) > k

C24_Expected(s, r) ==
    LET n == Len(s)
        ms == [i \in DOMAIN s |-> s[i] * 1000]
    IN  /\ r.count = n
        /\ C24_AtRank(ms, r.min_ms, 0)
        /\ C24_AtRank(ms, r.max_ms, n - 1)
        /\ C24_AtRank(ms, r.p50_ms, (50 * (n - 1)) \div 100)
        /\ C24_AtRank(ms, r.p95_ms, (95 * (n - 1)) \div 100)
        /\ C24_AtRank(ms, r.p99_ms, (99 * (n - 1)) \div 100)
        /\ r.min_ms <= r.p50_ms /\ r.p50_ms <= r.p95_ms
        /\ r.p95_ms <= r.p99_ms /\ r.p99_ms <= r.max_ms
        /\ (\A i \in DOMAIN ms : ms[i] = ms[1])
             => /\ r.p50_ms = ms[1] /\ r.p95_ms = ms[1] /\ r.p99_ms = ms[1]
                /\ r.min_ms = ms[1] /\ r.max_ms = ms[1]

\* C24: compute_latency_stats returns nothing for an empty list and otherwise
\* the elements at index floor(p/100 * (n-1)) of the ascending order for p in
\* {50, 95, 99}, with min and max its first and last; identical samples give
\* that value everywhere, and min <= p50 <= p95 <= p99 <= max.
C24_Percentiles ==
    rets # <<>> =>
        IF tcase.rtt_samples = <<>> THEN rets[1] = <<>>
        ELSE rets[1] # <<>> /\ C24_Expected(tcase.rtt_samples, rets[1][1])

\* samples given out of order whose p95 and p99 fall on either side of the
\* outliers
C24_Witness ==
    /\ rets # <<>> /\ rets[1] # <<>>
    /\ tcase.rtt_samples[1] > tcase.rtt_samples[Len(tcase.rtt_samples)]
    /\ rets[1][1].min_ms = rets[1][1].p95_ms
    /\ rets[1][1].p95_ms < rets[1][1].p99_ms
    /\ rets[1][1].p99_ms = rets[1][1].max_ms

====
